---- MODULE Spec2Model ----
(***************************************************************************)
(* A model of the multi-source plugin system of adsreader: the plugin      *)
(* registry (PluginManager), its active-plugin pointer, its lifecycle       *)
(* hooks, the per-plugin rate limiter and the search / federatedSearch /    *)
(* lookup dispatchers, together with the structural plugin validation.      *)
(*                                                                         *)
(* Asynchronous handlers are cut at their await points: the code between    *)
(* two awaits is one action.  A call in flight is a record of `calls`.      *)
(***************************************************************************)
EXTENDS Integers, Sequences, FiniteSets, Bags, TLC

\* JavaScript null (no active plugin): a value that is no character sequence.
NULL == <<"null">>

(***************************************************************************)
(* Bounds of the model.                                                     *)
(***************************************************************************)
\* Number of asynchronous registry calls (unregister, initialize, shutdown) that
\* may be in flight together.
MaxCalls == 1

\* Number of query calls (search, federatedSearch, lookup) made in a behaviour.
MaxQueries == 2

\* Number of lookup calls made in a behaviour.
MaxLookups == 1

\* Number of times the clock advances in a behaviour.
MaxTicks == 2

\* Number of esource records in the list given to the PDF-source conversion.
MaxEsources == 2

\* Date.now() when the manager is constructed: an epoch time, larger than every
\* delay.
StartTime == 5000

\* The steps by which the clock advances (milliseconds): a short and a long one.
ShortTick == 50
LongTick == 1000
TickSizes == {ShortTick, LongTick}

\* status.retryAfter of an exhausted rate limit (seconds).
RetryAfterValues == {1}

(***************************************************************************)
(* Plugin identifiers are strings; they are kept as character sequences so  *)
(* that the ID pattern of validatePlugin is computed, not assumed.          *)
(***************************************************************************)
ADS == <<"a", "d", "s">>
ARXIV == <<"a", "r", "x", "i", "v">>
INSPIRE == <<"i", "n", "s", "p", "i", "r", "e">>
LIB1 == <<"l", "i", "b", "_", "1">>
MYSRC == <<"m", "y", "-", "s", "r", "c">>
BARE == <<"x", "2">>
BADID == <<"A", "d", "s">>
NOID == <<>>

LowerChars ==
  {"a", "b", "c", "d", "e", "f", "g", "h", "i", "j", "k", "l", "m",
   "n", "o", "p", "q", "r", "s", "t", "u", "v", "w", "x", "y", "z"}

DigitChars == {"0", "1", "2", "3", "4", "5", "6", "7", "8", "9"}

\* A variant of the ID pattern that forgets the case of the first character.
IdPatternTestAnyCase(id) ==
  /\ Len(id) >= 1
  /\ \A i \in 2..Len(id) : id[i] \in LowerChars \cup DigitChars \cup {"_", "-"}

\* /^[a-z][a-z0-9_-]*$/.test(id)
IdPatternTest(id) ==
  /\ Len(id) >= 1
  /\ id[1] \in LowerChars
  /\ \A i \in 2..Len(id) : id[i] \in LowerChars \cup DigitChars \cup {"_", "-"}

(***************************************************************************)
(* The plugin objects handed to register().  A field that is FALSE / <<>>   *)
(* is a missing (falsy) property; `methods` is the set of function          *)
(* properties the object has.                                               *)
(***************************************************************************)
Caps(p, s, l, d) ==
  [present |-> p, search |-> s, lookup |-> l, pdfDownload |-> d,
   references |-> FALSE, citations |-> FALSE, bibtex |-> FALSE]

\* Capabilities with the flags references, citations and bibtex set too.
CapsWith(c, r, ci, b) ==
  [c EXCEPT !.references = r, !.citations = ci, !.bibtex = b]

AllMethods ==
  {"search", "getRecord", "getByDOI", "getByArxiv", "getPdfSources",
   "downloadPdf", "getRateLimitStatus", "initialize", "shutdown",
   "getReferences", "getCitations", "getBibtex"}

PluginObj(id, name, caps, auth, methods) ==
  [id |-> id, name |-> name, capabilities |-> caps, auth |-> auth, methods |-> methods]

Obj ==
  [o \in {"ads", "ads2", "arxiv", "inspire", "local", "lib", "bare", "badid", "noid",
          "noname", "nocaps", "noauth", "nosearch", "nolookup", "nosources",
          "nodownload", "norefs", "nocites", "nobibtex", "arxivpdf", "scans"} |->
     CASE o = "ads" -> PluginObj(ADS, TRUE,
                                 CapsWith(Caps(TRUE, TRUE, TRUE, TRUE), TRUE, TRUE, TRUE),
                                 TRUE, AllMethods)
       [] o = "arxivpdf" -> PluginObj(ARXIV, TRUE, Caps(TRUE, TRUE, TRUE, TRUE), TRUE,
                                      AllMethods)
       [] o = "scans" -> PluginObj(INSPIRE, TRUE, Caps(TRUE, FALSE, FALSE, TRUE), TRUE,
                                   {"getPdfSources", "downloadPdf"})
       [] o = "nosearch" -> PluginObj(MYSRC, TRUE, Caps(TRUE, TRUE, FALSE, FALSE), TRUE,
                                      AllMethods \ {"search"})
       [] o = "nolookup" -> PluginObj(MYSRC, TRUE, Caps(TRUE, FALSE, TRUE, FALSE), TRUE,
                                      AllMethods \ {"getRecord"})
       [] o = "nosources" -> PluginObj(MYSRC, TRUE, Caps(TRUE, FALSE, FALSE, TRUE), TRUE,
                                       AllMethods \ {"getPdfSources"})
       [] o = "nodownload" -> PluginObj(MYSRC, TRUE, Caps(TRUE, FALSE, FALSE, TRUE), TRUE,
                                        AllMethods \ {"downloadPdf"})
       [] o = "norefs" ->
            PluginObj(ARXIV, TRUE,
                      CapsWith(Caps(TRUE, TRUE, FALSE, FALSE), TRUE, FALSE, FALSE), TRUE,
                      AllMethods \ {"getReferences"})
       [] o = "nocites" ->
            PluginObj(INSPIRE, TRUE,
                      CapsWith(Caps(TRUE, TRUE, FALSE, FALSE), FALSE, TRUE, FALSE), TRUE,
                      AllMethods \ {"getCitations"})
       [] o = "nobibtex" ->
            PluginObj(LIB1, TRUE,
                      CapsWith(Caps(TRUE, TRUE, FALSE, FALSE), FALSE, FALSE, TRUE), TRUE,
                      AllMethods \ {"getBibtex"})
       [] o = "ads2" -> PluginObj(ADS, TRUE, Caps(TRUE, TRUE, FALSE, FALSE), TRUE,
                                  {"search", "getRateLimitStatus"})
       [] o = "arxiv" -> PluginObj(ARXIV, TRUE, Caps(TRUE, TRUE, TRUE, FALSE), TRUE,
                                   {"search", "getRecord", "getByArxiv",
                                    "getRateLimitStatus", "shutdown"})
       [] o = "inspire" -> PluginObj(INSPIRE, TRUE, Caps(TRUE, TRUE, TRUE, FALSE), TRUE,
                                     {"search", "getRecord", "getByDOI",
                                      "getRateLimitStatus", "initialize"})
       [] o = "local" -> PluginObj(LIB1, TRUE, Caps(TRUE, FALSE, TRUE, FALSE), TRUE,
                                   {"getRecord", "initialize"})
       [] o = "lib" -> PluginObj(MYSRC, TRUE, Caps(TRUE, TRUE, TRUE, FALSE), TRUE,
                                 {"search", "getRecord", "getByDOI", "getRateLimitStatus"})
       [] o = "bare" -> PluginObj(BARE, TRUE, Caps(TRUE, TRUE, TRUE, FALSE), TRUE,
                                  {"search", "getRecord"})
       [] o = "badid" -> PluginObj(BADID, TRUE, Caps(TRUE, TRUE, FALSE, FALSE), TRUE,
                                   AllMethods)
       [] o = "noid" -> PluginObj(NOID, TRUE, Caps(TRUE, TRUE, FALSE, FALSE), TRUE,
                                  AllMethods)
       [] o = "noname" -> PluginObj(ARXIV, FALSE, Caps(TRUE, TRUE, FALSE, FALSE), TRUE,
                                    AllMethods)
       [] o = "nocaps" -> PluginObj(ARXIV, TRUE, Caps(FALSE, FALSE, FALSE, FALSE), TRUE,
                                    AllMethods)
       [] o = "noauth" -> PluginObj(LIB1, TRUE, Caps(TRUE, TRUE, FALSE, FALSE), FALSE,
                                    AllMethods)]

\* The objects offered to register() in the registry specification.
RegObjs == {"ads", "ads2", "arxiv", "local", "badid", "noid", "noname", "nocaps", "noauth"}

\* The identifiers passed to unregister / setActive / enable / disable.
RegIds == {ADS, ARXIV, LIB1}

(***************************************************************************)
(* validatePlugin: the list of error messages, in the order they are pushed. *)
(***************************************************************************)
validatePluginErrors(o) ==
  LET p == Obj[o]
      caps == p.capabilities
      Err(cond, msg) == IF cond THEN <<msg>> ELSE <<>>
  IN  Err(p.id = <<>>, "Missing required property: id")
      \o Err(~p.name, "Missing required property: name")
      \o Err(~caps.present, "Missing required property: capabilities")
      \o Err(~p.auth, "Missing required property: auth")
      \o Err(caps.present /\ caps.search /\ "search" \notin p.methods,
             "Plugin declares search capability but has no search() method")
      \o Err(caps.present /\ caps.lookup /\ "getRecord" \notin p.methods,
             "Plugin declares lookup capability but has no getRecord() method")
      \o Err(caps.present /\ caps.pdfDownload /\ "getPdfSources" \notin p.methods,
             "Plugin declares pdfDownload capability but has no getPdfSources() method")
      \o Err(caps.present /\ caps.pdfDownload /\ "downloadPdf" \notin p.methods,
             "Plugin declares pdfDownload capability but has no downloadPdf() method")
      \o Err(p.id # <<>> /\ ~IdPatternTest(p.id),
             "Plugin ID must be lowercase alphanumeric with optional - or _")

validatePlugin(o) == [valid |-> Len(validatePluginErrors(o)) = 0,
                      errors |-> validatePluginErrors(o)]

(***************************************************************************)
(* State.                                                                   *)
(***************************************************************************)
VARIABLES
  plugins,          \* this.plugins: the registrations, in insertion order
  activePluginId,   \* this.activePluginId
  lastRequestTime,  \* this.lastRequestTime (0: no entry)
  now,              \* Date.now()
  calls,            \* the asynchronous manager calls in flight (a bag of records)
  last,             \* the handler step taken last and how it ended
  started,          \* the number of query calls made so far
  dispatches,       \* per plugin id: how many requests were dispatched, the last when
  token,            \* adsPlugin._token
  apiCalls,         \* the calls made to the ADS API module (adsApi), in order
  db,               \* mobile database module: let db
  dbPath,           \* mobile database module: let dbPath
  libraryPath,      \* mobile database module: let libraryPath
  SQL,              \* mobile database module: let SQL
  fsWrites          \* the Filesystem.writeFile calls made, in order (their paths)

vars ==
  <<plugins, activePluginId, lastRequestTime, now, calls, last, started, dispatches,
    token, apiCalls, db, dbPath, libraryPath, SQL, fsWrites>>

\* The state of the ADS plugin object, which the plugin manager never touches.
avars == <<token, apiCalls>>

\* The state of the mobile database module.
dvars == <<db, dbPath, libraryPath, SQL, fsWrites>>

\* What the registration and lifecycle methods never touch.
qvars ==
  <<lastRequestTime, now, started, dispatches, token, apiCalls,
    db, dbPath, libraryPath, SQL, fsWrites>>

AllIds == {Obj[o].id : o \in DOMAIN Obj}

Registration(o) == [id |-> Obj[o].id, plugin |-> o, enabled |-> TRUE]

\* A call in flight: the method, its argument, the hooks it awaits (pending,
\* live), the plugin requests it has under way (tasks), and the locals of
\* federatedSearch (results, errors) and lookup (idType, active, snapshot, pos,
\* tried), and for a call of the mobile database module the await it is
\* suspended in (stage) and whether closeDatabase has run since it opened the
\* database (closed).
Idle ==
  [op |-> "idle", id |-> <<>>, obj |-> "-", pending |-> {}, live |-> {},
   tasks |-> <<>>, results |-> {}, errors |-> {},
   idType |-> "-", active |-> "-", snapshot |-> <<>>, pos |-> 0, tried |-> <<>>,
   tagged |-> {}, sources |-> <<>>, stage |-> "-", closed |-> FALSE]

\* The record of a handler step: the handler, its argument (a plugin object or an
\* id), how it ended ("ok", "throw", "await") and, for the steps that may move
\* the active pointer, the pointer before the step.
StepWas(op, obj, id, res, was) ==
  [op |-> op, obj |-> obj, id |-> id, res |-> res, was |-> was, ret |-> <<>>]

Step(op, obj, id, res) == StepWas(op, obj, id, res, NULL)

\* The record of a step of a query call, with what the call has returned or
\* observed (ret).
StepRet(op, obj, res, ret) ==
  [op |-> op, obj |-> obj, id |-> <<>>, res |-> res, was |-> NULL, ret |-> ret]

Range(s) == {s[i] : i \in 1..Len(s)}

\* this.plugins.has(id)
Has(regs, id) == \E i \in 1..Len(regs) : regs[i].id = id

\* this.plugins.get(id), for a registered id
Get(regs, id) == regs[CHOOSE i \in 1..Len(regs) : regs[i].id = id]

\* this.plugins.delete(id)
Delete(regs, id) ==
  LET Keep(r) == r.id # id IN SelectSeq(regs, Keep)

\* registration.enabled = flag
SetEnabled(regs, id, flag) ==
  [i \in 1..Len(regs) |->
     IF regs[i].id = id THEN [regs[i] EXCEPT !.enabled = flag] ELSE regs[i]]

\* list({enabledOnly, capability}): the registrations that pass the filter, in
\* insertion order (capability "" is the absent option)
list(regs, enabledOnly, capability) ==
  LET Pass(r) ==
        /\ ~(enabledOnly /\ ~r.enabled)
        /\ ~(capability # "" /\ ~Obj[r.plugin].capabilities[capability])
  IN  SelectSeq(regs, Pass)

\* The calls in flight, and whether one more may start.
InFlight == BagToSet(calls)

HasFreeSlot == BagCardinality(calls) < MaxCalls

Started(cs, c) == cs (+) SetToBag({c})

Finished(cs, c) == cs (-) SetToBag({c})

Resumed(cs, c, d) == Started(Finished(cs, c), d)

\* A registration object that leaves the registry is no longer the one an
\* in-flight initialize() holds: its later `reg.enabled = false` is not seen.
DropLiveOf(c, ids) == IF c.op = "initialize" THEN [c EXCEPT !.live = @ \ ids] ELSE c

RECURSIVE DropLive(_, _)
DropLive(cs, ids) ==
  IF cs = EmptyBag
  THEN EmptyBag
  ELSE LET c == CHOOSE x \in BagToSet(cs) : TRUE
       IN  Started(DropLive(Finished(cs, c), ids), DropLiveOf(c, ids))

Init ==
  /\ plugins = <<>>
  /\ activePluginId = NULL
  /\ lastRequestTime = [id \in AllIds |-> 0]
  /\ now = StartTime
  /\ calls = EmptyBag
  /\ last = Step("new", "-", <<>>, "ok")
  /\ started = 0
  /\ dispatches = [id \in AllIds |-> [n |-> 0, at |-> 0]]
  /\ token = NULL
  /\ apiCalls = <<>>
  /\ db = NULL
  /\ dbPath = NULL
  /\ libraryPath = NULL
  /\ SQL = NULL
  /\ fsWrites = <<>>

(***************************************************************************)
(* Registration.                                                            *)
(***************************************************************************)
\* The registry after a successful register(o).
RegisterInsert(regs, o) == Append(regs, Registration(o))

\* setActive(id), for a registered id
SetActivePointer(id) == id

\* register(plugin)
Register(o) ==
  IF ~validatePlugin(o).valid \/ Has(plugins, Obj[o].id)
  THEN /\ last' = Step("register", o, Obj[o].id, "throw")
       /\ UNCHANGED <<plugins, activePluginId, calls>>
  ELSE /\ plugins' = RegisterInsert(plugins, o)
       /\ activePluginId' =
            IF activePluginId = NULL THEN SetActivePointer(Obj[o].id) ELSE activePluginId
       /\ last' = StepWas("register", o, Obj[o].id, "ok", activePluginId)
       /\ UNCHANGED calls

\* A variant of the promotion that takes the plugin registered last.
ActiveAfterRemovalLast(regs, active, id) ==
  IF active = id
  THEN IF Len(regs) > 0 THEN regs[Len(regs)].id ELSE NULL
  ELSE active

\* A variant of the promotion that clears the pointer without promoting.
ActiveAfterRemovalNone(regs, active, id) == IF active = id THEN NULL ELSE active

\* A variant of unregister() that leaves the pointer as it is.
ActiveAfterRemovalKept(regs, active, id) == active

\* The active pointer after registration `id` has been deleted from `regs`.
ActiveAfterRemoval(regs, active, id) ==
  IF active = id
  THEN LET remaining == list(regs, FALSE, "")
       IN  IF Len(remaining) > 0 THEN remaining[1].id ELSE NULL
  ELSE active

\* unregister(id), up to its first await (the plugin's shutdown hook); with no
\* hook the removal happens in the same step.
UnregisterStart(id) ==
  IF ~Has(plugins, id)
  THEN /\ last' = Step("unregister", "-", id, "throw")
       /\ UNCHANGED <<plugins, activePluginId, calls>>
  ELSE IF "shutdown" \in Obj[Get(plugins, id).plugin].methods
  THEN /\ HasFreeSlot
       /\ calls' = Started(calls, [Idle EXCEPT !.op = "unregister", !.id = id,
                                                !.obj = Get(plugins, id).plugin])
       /\ last' = Step("unregister", Get(plugins, id).plugin, id, "await")
       /\ UNCHANGED <<plugins, activePluginId>>
  ELSE /\ plugins' = Delete(plugins, id)
       /\ activePluginId' = ActiveAfterRemoval(Delete(plugins, id), activePluginId, id)
       /\ calls' = DropLive(calls, {id})
       /\ last' = StepWas("unregister", Get(plugins, id).plugin, id, "ok", activePluginId)

\* A variant of unregister() without the try/catch around the hook.
UnregisterCaughtNot(hook) == hook

\* try { await registration.plugin.shutdown() } catch (err) { console.error }:
\* how unregister goes on after the hook has ended with `hook`.
UnregisterCaught(hook) == "ok"

\* unregister(id), after the shutdown hook has settled (resolved or thrown: the
\* error is logged only).
UnregisterFinish(c, hook) ==
  /\ c.op = "unregister"
  /\ IF UnregisterCaught(hook) = "throw"
     THEN /\ calls' = Finished(calls, c)
          /\ last' = [Step("unregister", c.obj, c.id, "throw")
                        EXCEPT !.ret = [hook |-> hook]]
          /\ UNCHANGED <<plugins, activePluginId>>
     ELSE /\ plugins' = Delete(plugins, c.id)
          /\ activePluginId' =
               ActiveAfterRemoval(Delete(plugins, c.id), activePluginId, c.id)
          /\ calls' = DropLive(Finished(calls, c), {c.id})
          /\ last' = [StepWas("unregister", c.obj, c.id, "ok", activePluginId)
                        EXCEPT !.ret = [hook |-> hook]]

\* setActive(id)
SetActive(id) ==
  IF ~Has(plugins, id)
  THEN /\ last' = Step("setActive", "-", id, "throw")
       /\ UNCHANGED <<plugins, activePluginId, calls>>
  ELSE /\ activePluginId' = SetActivePointer(id)
       /\ last' = Step("setActive", "-", id, "ok")
       /\ UNCHANGED <<plugins, calls>>

\* enable(id)
Enable(id) ==
  IF ~Has(plugins, id)
  THEN /\ last' = Step("enable", "-", id, "throw")
       /\ UNCHANGED <<plugins, activePluginId, calls>>
  ELSE /\ plugins' = SetEnabled(plugins, id, TRUE)
       /\ last' = Step("enable", "-", id, "ok")
       /\ UNCHANGED <<activePluginId, calls>>

\* A variant of disable() that promotes the first plugin, enabled or not.
ActiveAfterDisableAny(regs, active, id) ==
  IF active = id THEN regs[1].id ELSE active

\* The active pointer after registration `id` of `regs` has been disabled.
ActiveAfterDisable(regs, active, id) ==
  IF active = id
  THEN LET enabled == list(regs, TRUE, "")
       IN  IF Len(enabled) > 0 THEN enabled[1].id ELSE NULL
  ELSE active

\* disable(id)
Disable(id) ==
  IF ~Has(plugins, id)
  THEN /\ last' = Step("disable", "-", id, "throw")
       /\ UNCHANGED <<plugins, activePluginId, calls>>
  ELSE /\ plugins' = SetEnabled(plugins, id, FALSE)
       /\ activePluginId' =
            ActiveAfterDisable(SetEnabled(plugins, id, FALSE), activePluginId, id)
       /\ last' = StepWas("disable", "-", id, "ok", activePluginId)
       /\ UNCHANGED calls

(***************************************************************************)
(* Lifecycle.                                                               *)
(***************************************************************************)
\* A variant of the lifecycle methods that leaves out the disabled plugins.
WithHookEnabled(regs, m) ==
  {regs[i].id : i \in {j \in 1..Len(regs) :
                          m \in Obj[regs[j].plugin].methods /\ regs[j].enabled}}

\* The ids of the registrations whose plugin has the hook `m`.
WithHook(regs, m) ==
  {regs[i].id : i \in {j \in 1..Len(regs) : m \in Obj[regs[j].plugin].methods}}

\* initialize(), up to `await Promise.all`: every initialize hook is invoked.
InitializeStart ==
  /\ HasFreeSlot
  /\ calls' = Started(calls, [Idle EXCEPT !.op = "initialize",
                                           !.pending = WithHook(plugins, "initialize"),
                                           !.live = WithHook(plugins, "initialize")])
  /\ last' = Step("initialize", "-", <<>>, "await")
  /\ UNCHANGED <<plugins, activePluginId>>

\* A variant of initialize() that unregisters the plugin whose hook threw.
AfterInitializeFailureRemove(regs, id) == Delete(regs, id)

\* The registry after the initialize hook of registration `id` has thrown.
AfterInitializeFailure(regs, id) == SetEnabled(regs, id, FALSE)

\* One initialize hook settles; on a throw the catch marks the registration
\* disabled.
InitializeHookSettle(c, id, hook) ==
  /\ c.op = "initialize"
  /\ id \in c.pending
  /\ plugins' = IF hook = "throw" /\ id \in c.live
                THEN AfterInitializeFailure(plugins, id)
                ELSE plugins
  /\ calls' = Resumed(calls, c, [c EXCEPT !.pending = @ \ {id}, !.live = @ \ {id}])
  /\ last' = Step("initializeHook", "-", id, hook)
  /\ UNCHANGED activePluginId

\* initialize() returns once every hook has settled.
InitializeFinish(c) ==
  /\ c.op = "initialize"
  /\ c.pending = {}
  /\ calls' = Finished(calls, c)
  /\ last' = Step("initialize", "-", <<>>, "ok")
  /\ UNCHANGED <<plugins, activePluginId>>

\* shutdown(), up to `await Promise.all`: every shutdown hook is invoked.
ShutdownStart ==
  /\ HasFreeSlot
  /\ calls' = Started(calls, [Idle EXCEPT !.op = "shutdown",
                                           !.pending = WithHook(plugins, "shutdown")])
  /\ last' = Step("shutdown", "-", <<>>, "await")
  /\ UNCHANGED <<plugins, activePluginId>>

\* One shutdown hook settles; a throw is logged only.
ShutdownHookSettle(c, id, hook) ==
  /\ c.op = "shutdown"
  /\ id \in c.pending
  /\ calls' = Resumed(calls, c, [c EXCEPT !.pending = @ \ {id}])
  /\ last' = Step("shutdownHook", "-", id, hook)
  /\ UNCHANGED <<plugins, activePluginId>>

\* shutdown(), after every hook has settled: the registry is cleared.
ShutdownFinish(c) ==
  /\ c.op = "shutdown"
  /\ c.pending = {}
  /\ plugins' = <<>>
  /\ activePluginId' = NULL
  /\ calls' = DropLive(Finished(calls, c), {r.id : r \in Range(plugins)})
  /\ last' = Step("shutdown", "-", <<>>, "ok")

HookOutcomes == {"ok", "throw"}

RegistryStep ==
  \/ \E o \in RegObjs : Register(o)
  \/ \E id \in RegIds : UnregisterStart(id)
  \/ \E c \in InFlight, h \in HookOutcomes : UnregisterFinish(c, h)
  \/ \E id \in RegIds : SetActive(id)
  \/ \E id \in RegIds : Enable(id)
  \/ \E id \in RegIds : Disable(id)
  \/ InitializeStart
  \/ \E c \in InFlight, id \in RegIds, h \in HookOutcomes : InitializeHookSettle(c, id, h)
  \/ \E c \in InFlight : InitializeFinish(c)
  \/ ShutdownStart
  \/ \E c \in InFlight, id \in RegIds, h \in HookOutcomes : ShutdownHookSettle(c, id, h)
  \/ \E c \in InFlight : ShutdownFinish(c)

NextReg == RegistryStep /\ UNCHANGED qvars

SpecReg == Init /\ [][NextReg]_vars

\* The plugin objects of the validation specification: one for each capability
\* declared without its method, and two that have every method they declare.
ValidateObjs ==
  {"nosearch", "nolookup", "nosources", "nodownload", "norefs", "nocites", "nobibtex",
   "ads", "lib"}

NextValidate == (\E o \in ValidateObjs : Register(o)) /\ UNCHANGED qvars

SpecValidate == Init /\ [][NextValidate]_vars

(***************************************************************************)
(* _detectIdentifierType(identifier).  Identifiers are strings, kept as     *)
(* character sequences so that the patterns are computed.                   *)
(***************************************************************************)
UpperChars ==
  {"A", "B", "C", "D", "E", "F", "G", "H", "I", "J", "K", "L", "M",
   "N", "O", "P", "Q", "R", "S", "T", "U", "V", "W", "X", "Y", "Z"}

WhiteSpace == {" ", "\t", "\n"}

\* A variant of the classifier that matches the identifier as it was given.
trimNone(s) == s

\* identifier.trim()
trim(s) ==
  LET keep == {i \in 1..Len(s) : s[i] \notin WhiteSpace}
  IN  IF keep = {}
      THEN <<>>
      ELSE SubSeq(s, CHOOSE i \in keep : \A j \in keep : i <= j,
                     CHOOSE i \in keep : \A j \in keep : i >= j)

\* Whether the characters a..b of s exist and are all of class cls.
AllOf(s, a, b, cls) == b <= Len(s) /\ \A i \in a..b : s[i] \in cls

\* /^10\.\d{4,}\//.test(id)
DoiPatternTest(id) ==
  /\ Len(id) >= 8
  /\ id[1] = "1" /\ id[2] = "0" /\ id[3] = "."
  /\ \E k \in 8..Len(id) : id[k] = "/" /\ AllOf(id, 4, k - 1, DigitChars)

\* /^\d{4}\.\d{4,5}(v\d+)?$/.test(id)
ArxivNewPatternTest(id) ==
  /\ AllOf(id, 1, 4, DigitChars)
  /\ Len(id) >= 5 /\ id[5] = "."
  /\ \E n \in {4, 5} :
       /\ AllOf(id, 6, 5 + n, DigitChars)
       /\ \/ Len(id) = 5 + n
          \/ /\ Len(id) >= 7 + n
             /\ id[6 + n] = "v"
             /\ AllOf(id, 7 + n, Len(id), DigitChars)

\* /^[a-z-]+\/\d{7}$/.test(id)
ArxivOldPatternTest(id) ==
  /\ Len(id) >= 9
  /\ AllOf(id, 1, Len(id) - 8, LowerChars \cup {"-"})
  /\ id[Len(id) - 7] = "/"
  /\ AllOf(id, Len(id) - 6, Len(id), DigitChars)

\* /^\d{4}[A-Za-z&.]{5}[A-Za-z0-9.]{9}[A-Z.]$/.test(id)
BibcodePatternTest(id) ==
  /\ Len(id) = 19
  /\ AllOf(id, 1, 4, DigitChars)
  /\ AllOf(id, 5, 9, UpperChars \cup LowerChars \cup {"&", "."})
  /\ AllOf(id, 10, 18, UpperChars \cup LowerChars \cup DigitChars \cup {"."})
  /\ id[19] \in UpperChars \cup {"."}

\* /^\d+$/.test(id) && id.length < 10
InspirePatternTest(id) ==
  /\ Len(id) >= 1
  /\ AllOf(id, 1, Len(id), DigitChars)
  /\ Len(id) < 10

detectIdentifierType(identifier) ==
  LET id == trim(identifier)
  IN  IF DoiPatternTest(id) THEN "doi"
      ELSE IF ArxivNewPatternTest(id) \/ ArxivOldPatternTest(id) THEN "arxiv"
      ELSE IF BibcodePatternTest(id) THEN "bibcode"
      ELSE IF InspirePatternTest(id) THEN "inspire"
      ELSE "unknown"

\* The identifiers looked up.
Identifiers ==
  {<<"1", "0", ".", "1", "0", "8", "6", "/", "3", "0", "5", "7", "7", "2">>,
   <<" ", "2", "4", "0", "1", ".", "1", "2", "3", "4", "5", "v", "2">>,
   <<"1", "0", ".", "1", "2", "/", "x">>}

\* The classifier on its own: _detectIdentifierType is applied to identifiers
\* made of a core string without outer whitespace, padded with whitespace on
\* either side.  The cores are sample identifiers of each kind, near misses, and
\* every string that differs from one of them in one character.
SampleIdentifiers ==
  {<<"1", "0", ".", "1", "0", "8", "6", "/", "3", "0", "5", "7", "7", "2">>,
   <<"2", "4", "0", "1", ".", "1", "2", "3", "4", "5">>,
   <<"2", "0", "2", "4", "A", "p", "J", ".", ".", ".", "1", "2", "3", ".", ".", "4", "5", "6", "A">>,
   <<"1", "2", "3", "4", "5", "6", "7">>,
   <<"n", "o", "t", "-", "a", "n", "-", "i", "d">>,
   <<>>,
   <<"2", "4", "0", "1", ".", "1", "2", "3", "4", "5", "v", "2">>,
   <<"2", "4", "0", "1", ".", "1", "2", "3", "4">>,
   <<"2", "4", "0", "1", ".", "1", "2", "3", "4", "5", "v">>,
   <<"h", "e", "p", "-", "t", "h", "/", "9", "9", "0", "1", "0", "0", "1">>,
   <<"1", "0", ".", "1", "2", "/", "x">>,
   <<"1", "0", ".", "1", "0", "8", "6">>,
   <<"1", "2", "3", "4", "5", "6", "7", "8", "9">>,
   <<"1", "2", "3", "4", "5", "6", "7", "8", "9", "0">>,
   <<"2", "0", "2", "4", "A", "&", "A", ".", ".", ".", "1", "2", "3", ".", ".", "4", "5", "6", ".">>,
   <<"2", "0", "2", "4", "A", "p", "J", ".", ".", ".", "1", "2", "3", ".", ".", "4", "5", "6", "A", "B">>,
   <<"2", "4", "0", "1", " ", "1", "2", "3", "4", "5">>}

SubstChars == {"0", "7", "a", "v", "Z", ".", "&", "/", "-", "_"}

Subst(s, i, ch) == [s EXCEPT ![i] = ch]

ClassifyCores ==
  SampleIdentifiers
    \cup UNION {{Subst(s, i, ch) : i \in 1..Len(s), ch \in SubstChars} :
                  s \in SampleIdentifiers}

Pads == {<<>>, <<" ">>, <<"\t", "\n">>}

Classify(lead, core, trail) ==
  /\ last' = StepRet("_detectIdentifierType", "-", "ok",
                     [identifier |-> lead \o core \o trail,
                      core |-> core,
                      type |-> detectIdentifierType(lead \o core \o trail)])
  /\ UNCHANGED <<plugins, activePluginId, lastRequestTime, now, calls, started,
                 dispatches, token, apiCalls>>
  /\ UNCHANGED dvars

\* One application of the classifier in a behaviour: it keeps no state.
NextClassify ==
  /\ last.op = "new"
  /\ \E lead \in Pads, core \in ClassifyCores, trail \in Pads : Classify(lead, core, trail)

SpecClassify == Init /\ [][NextClassify]_vars

(***************************************************************************)
(* Rate limiting.  A task is one plugin request of a query call, from the    *)
(* rate-limit step that precedes it to its result.                          *)
(*   stage "retryWait": suspended in the retryAfter timer                    *)
(*         "delayWait": suspended in the minimum-delay timer                 *)
(*         "ready":     _enforceRateLimit has returned, the caller resumes   *)
(*         "thrown":    _enforceRateLimit has thrown, the caller resumes     *)
(*         "inflight":  the plugin method has been called                    *)
(*         "done":      the plugin method has settled (out)                  *)
(***************************************************************************)
\* _getMinDelay(pluginId)
getMinDelay(id) ==
  CASE id = ADS -> 50
    [] id = ARXIV -> 3000
    [] id = INSPIRE -> 350
    [] OTHER -> 100

\* What plugin.getRateLimitStatus() may answer: it throws, or reports requests
\* remaining, or none remaining with or without retryAfter.
StatusValues ==
  {[throws |-> TRUE, remaining |-> 0, retryAfter |-> 0],
   [throws |-> FALSE, remaining |-> 1, retryAfter |-> 0],
   [throws |-> FALSE, remaining |-> 0, retryAfter |-> 0]}
  \cup {[throws |-> FALSE, remaining |-> 0, retryAfter |-> r] : r \in RetryAfterValues}

\* The answer of a plugin that is not asked.
NoStatus == [throws |-> FALSE, remaining |-> 1, retryAfter |-> 0]

\* Whether a call made now asks plugin `id` for its rate-limit status.
Asked(id) ==
  /\ Has(plugins, id)
  /\ Get(plugins, id).enabled
  /\ "getRateLimitStatus" \in Obj[Get(plugins, id).plugin].methods

\* Whether a request to plugin `id` is being prepared (not dispatched yet).
Preparing(id) ==
  \E c \in InFlight : \E i \in 1..Len(c.tasks) :
    c.tasks[i].id = id /\ c.tasks[i].stage \in {"retryWait", "delayWait", "ready"}

\* A new task for plugin object o.  `due` observes the pacing owed to it: when
\* no other request to the plugin is being prepared and the last dispatch is
\* less than the minimum delay ago, the time that is the minimum delay after
\* that dispatch (0 otherwise).
Task(o) ==
  [obj |-> o, id |-> Obj[o].id, stage |-> "new", wakeAt |-> 0, method |-> "-",
   out |-> "-",
   due |-> IF /\ ~Preparing(Obj[o].id)
              /\ dispatches[Obj[o].id].n > 0
              /\ now - dispatches[Obj[o].id].at < getMinDelay(Obj[o].id)
           THEN dispatches[Obj[o].id].at + getMinDelay(Obj[o].id)
           ELSE 0]

\* The second half of _enforceRateLimit: wait out the minimum delay, or record
\* the request time at once.
Pace(t, lrt) ==
  LET minDelay == getMinDelay(t.id)
      lastRequest == lrt[t.id]
      elapsed == now - lastRequest
  IN  IF elapsed < minDelay
      THEN [task |-> [t EXCEPT !.stage = "delayWait",
                               !.wakeAt = now + (minDelay - elapsed)],
            lrt |-> lrt]
      ELSE [task |-> [t EXCEPT !.stage = "ready"],
            lrt |-> [lrt EXCEPT ![t.id] = now]]

\* _enforceRateLimit(pluginId), up to its first await or its return.
enforceRateLimit(t, lrt, status) ==
  IF ~Has(plugins, t.id) \/
     "getRateLimitStatus" \notin Obj[Get(plugins, t.id).plugin].methods
  THEN [task |-> [t EXCEPT !.stage = "ready"], lrt |-> lrt]
  ELSE IF status.throws
  THEN [task |-> [t EXCEPT !.stage = "thrown"], lrt |-> lrt]
  ELSE IF status.remaining <= 0 /\ status.retryAfter # 0
  THEN [task |-> [t EXCEPT !.stage = "retryWait",
                           !.wakeAt = now + status.retryAfter * 1000],
        lrt |-> lrt]
  ELSE Pace(t, lrt)

\* The plugin methods _enforceRateLimit calls before its first await.
enforceRateLimitInvokes(id) ==
  IF Has(plugins, id) /\ "getRateLimitStatus" \in Obj[Get(plugins, id).plugin].methods
  THEN <<"getRateLimitStatus">>
  ELSE <<>>

\* A timer of _enforceRateLimit fires and the function runs on.
Wake(c, i) ==
  /\ i \in 1..Len(c.tasks)
  /\ c.tasks[i].stage \in {"retryWait", "delayWait"}
  /\ now >= c.tasks[i].wakeAt
  /\ LET t == c.tasks[i]
         r == IF t.stage = "retryWait"
              THEN Pace(t, lastRequestTime)
              ELSE [task |-> [t EXCEPT !.stage = "ready"],
                    lrt |-> [lastRequestTime EXCEPT ![t.id] = now]]
     IN  /\ calls' = Resumed(calls, c, [c EXCEPT !.tasks[i] = r.task])
         /\ lastRequestTime' = r.lrt
         /\ last' = StepRet("wake", t.obj, "await", <<>>)
  /\ UNCHANGED <<plugins, activePluginId, now, started, dispatches>>
  /\ UNCHANGED <<avars, dvars>>

\* A variant of _lookupWithPlugin that always takes the generic method.
lookupMethodGeneric(o, idType) == "getRecord"

\* The plugin method _lookupWithPlugin calls after the rate-limit step.
lookupMethod(o, idType) ==
  CASE idType = "doi" /\ "getByDOI" \in Obj[o].methods -> "getByDOI"
    [] idType = "arxiv" /\ "getByArxiv" \in Obj[o].methods -> "getByArxiv"
    [] OTHER -> "getRecord"

\* The plugin method a task calls: search, or the method chosen by
\* _lookupWithPlugin.
MethodOf(c, t) == IF c.op = "lookup" THEN lookupMethod(t.obj, c.idType) ELSE "search"

\* The caller resumes after `await this._enforceRateLimit(...)` and calls the
\* plugin.
Dispatch(c, i) ==
  /\ i \in 1..Len(c.tasks)
  /\ c.tasks[i].stage = "ready"
  /\ LET t == c.tasks[i]
     IN  /\ calls' = Resumed(calls, c,
                       [c EXCEPT !.tasks[i] = [t EXCEPT !.stage = "inflight",
                                                        !.method = MethodOf(c, t)]])
         /\ dispatches' = [dispatches EXCEPT ![t.id] = [n |-> @.n + 1, at |-> now]]
         /\ last' = StepRet("dispatch", t.obj, "await",
                            [call |-> c.op, id |-> t.id, method |-> MethodOf(c, t),
                             prev |-> dispatches[t.id], due |-> t.due,
                             tried |-> c.tried, idType |-> c.idType])
  /\ UNCHANGED <<plugins, activePluginId, lastRequestTime, now, started>>
  /\ UNCHANGED <<avars, dvars>>

\* Whether a continuation is ready to run: timers fire only after these.
MicrotaskPending ==
  \E c \in InFlight : \E i \in 1..Len(c.tasks) : c.tasks[i].stage \in {"ready", "thrown"}

\* The number of clock steps taken so far (the long step is a multiple of the
\* short one, and fewer short steps are taken than make a long one).
TicksTaken ==
  ((now - StartTime) \div LongTick) + (((now - StartTime) % LongTick) \div ShortTick)

\* The timers that are set.
Timers ==
  UNION {{c.tasks[i].wakeAt : i \in {j \in 1..Len(c.tasks) :
                                       c.tasks[j].stage \in {"retryWait", "delayWait"}}} :
         c \in InFlight}

\* Time passes, up to the next timer at most: a timer fires when it is due.
Tick(d) ==
  /\ ~MicrotaskPending
  /\ \A w \in Timers : now + d <= w
  /\ TicksTaken < MaxTicks
  /\ now' = now + d
  /\ last' = Step("tick", "-", <<>>, "ok")
  /\ UNCHANGED <<plugins, activePluginId, lastRequestTime, calls, started, dispatches>>
  /\ UNCHANGED <<avars, dvars>>

(***************************************************************************)
(* search(query)                                                            *)
(***************************************************************************)
\* getActive(): the active plugin object, "-" for null
getActive ==
  IF activePluginId = NULL \/ ~Has(plugins, activePluginId)
  THEN "-"
  ELSE Get(plugins, activePluginId).plugin

\* A variant of search() that delegates to the plugin registered first.
SearchTargetFirst == IF plugins = <<>> THEN "-" ELSE plugins[1].plugin

\* The plugin search() delegates to.
SearchTarget == getActive

\* Papers as a plugin returns them: a Paper is its set of own properties with
\* their values; `source` may be another plugin's id, the plugin's own, or
\* missing.
PaperForeign ==
  [f \in {"title", "source", "sourceId"} |->
     CASE f = "title" -> <<"t", "1">>
       [] f = "source" -> ARXIV
       [] f = "sourceId" -> <<"s", "1">>]

PaperBare ==
  [f \in {"title", "bibcode"} |->
     CASE f = "title" -> <<"t", "2">>
       [] f = "bibcode" -> <<"b", "2">>]

PaperMine ==
  [f \in {"source", "doi"} |->
     CASE f = "source" -> MYSRC
       [] f = "doi" -> <<"d", "3">>]

\* result.papers of the results the plugins return.
ResultPapers == {<<PaperForeign, PaperBare>>, <<PaperMine>>}

\* A variant of the tagging that spreads the paper over the tag:
\* ({source: plugin.id, ...p}).
tagPaperUnder(p, id) ==
  [f \in DOMAIN p \cup {"source"} |-> IF f \in DOMAIN p THEN p[f] ELSE id]

\* ({...p, source: plugin.id})
tagPaper(p, id) ==
  [f \in DOMAIN p \cup {"source"} |-> IF f = "source" THEN id ELSE p[f]]

\* result.papers.map(p => ({...p, source: plugin.id}))
tagPapers(papers, id) == [i \in 1..Len(papers) |-> tagPaper(papers[i], id)]

\* How search() ends when the plugin's search has ended with `out`.
SearchOutcome(out) == out

\* search(query), up to its first await.
SearchStart(status) ==
  /\ started < MaxQueries
  /\ IF SearchTarget = "-"
     THEN /\ last' = StepRet("search", "-", "throw",
                             [why |-> "No active plugin", invoked |-> <<>>])
          /\ UNCHANGED <<lastRequestTime, calls, started>>
     ELSE IF ~Obj[SearchTarget].capabilities.search
     THEN /\ last' = StepRet("search", SearchTarget, "throw",
                             [why |-> "does not support search", invoked |-> <<>>])
          /\ UNCHANGED <<lastRequestTime, calls, started>>
     ELSE LET r == enforceRateLimit(Task(SearchTarget), lastRequestTime, status)
          IN  /\ calls' = Started(calls, [Idle EXCEPT !.op = "search",
                                                      !.obj = SearchTarget,
                                                      !.tasks = <<r.task>>])
              /\ lastRequestTime' = r.lrt
              /\ started' = started + 1
              /\ last' = StepRet("search", SearchTarget, "await",
                                 [why |-> "-",
                                  invoked |-> enforceRateLimitInvokes(Obj[SearchTarget].id)])
  /\ UNCHANGED <<plugins, activePluginId, now, dispatches>>
  /\ UNCHANGED <<avars, dvars>>

SearchOutcomes == {"ok", "throw"}

\* search(query), after the rate-limit step has thrown or the plugin's search
\* has settled: the result is tagged and returned, an error propagates.
SearchSettle(c, out) ==
  /\ c.op = "search"
  /\ \/ c.tasks[1].stage = "inflight"
     \/ c.tasks[1].stage = "thrown" /\ out = "throw"
  /\ calls' = Finished(calls, c)
  /\ \E raw \in (IF out = "ok" THEN ResultPapers ELSE {<<>>}) :
       last' = StepRet("search.return", c.obj, SearchOutcome(out),
                       [out |-> out, stage |-> c.tasks[1].stage, raw |-> raw,
                        papers |-> tagPapers(raw, Obj[c.obj].id)])
  /\ UNCHANGED <<plugins, activePluginId, lastRequestTime, now, started, dispatches>>
  /\ UNCHANGED <<avars, dvars>>

\* The plugin objects and ids of the search specification.
SearchObjs == {"lib", "bare", "local"}

SearchIds == {Obj[o].id : o \in SearchObjs}

\* In the query specifications the registry is set up before the first query
\* is made, and the clock is followed from the first query on.
Setup == started = 0 /\ calls = EmptyBag

NextSearch ==
  \/ Setup /\ (\E o \in SearchObjs : Register(o)) /\ UNCHANGED qvars
  \/ Setup /\ (\E id \in SearchIds : SetActive(id)) /\ UNCHANGED qvars
  \/ \E status \in StatusValues : SearchStart(status)
  \/ \E c \in InFlight : \E i \in 1..Len(c.tasks) : Wake(c, i)
  \/ \E c \in InFlight : \E i \in 1..Len(c.tasks) : Dispatch(c, i)
  \/ \E c \in InFlight, out \in SearchOutcomes : SearchSettle(c, out)
  \/ ~Setup /\ \E d \in TickSizes : Tick(d)

SpecSearch == Init /\ [][NextSearch]_vars

(***************************************************************************)
(* federatedSearch(query)                                                   *)
(***************************************************************************)
\* list() hands out the plugin objects of the registrations.
PluginsOf(regs) == [i \in 1..Len(regs) |-> regs[i].plugin]

\* searchPlugins.map(async plugin => ...): the mapper calls run one after the
\* other up to their first await, each through _enforceRateLimit and each
\* seeing the request times the earlier ones have left.
RECURSIVE FedTasks(_, _, _)
FedTasks(objs, lrt, status) ==
  IF objs = <<>>
  THEN [tasks |-> <<>>, lrt |-> lrt]
  ELSE LET r == enforceRateLimit(Task(Head(objs)), lrt, status[Obj[Head(objs)].id])
           rest == FedTasks(Tail(objs), r.lrt, status)
       IN  [tasks |-> <<r.task>> \o rest.tasks, lrt |-> rest.lrt]

\* federatedSearch(query), up to `await Promise.allSettled(...)`.  The calls of a
\* behaviour are made one after the other: a call shares nothing with another
\* but the request times.
FedStart(status) ==
  /\ started < MaxQueries
  /\ calls = EmptyBag
  /\ LET searchPlugins == PluginsOf(list(plugins, TRUE, "search"))
         r == FedTasks(searchPlugins, lastRequestTime, status)
     IN  /\ calls' = Started(calls, [Idle EXCEPT !.op = "federatedSearch",
                                                 !.tasks = r.tasks,
                                                 !.snapshot = searchPlugins])
         /\ lastRequestTime' = r.lrt
         /\ last' = StepRet("federatedSearch", "-", "await", <<>>)
  /\ started' = started + 1
  /\ UNCHANGED <<plugins, activePluginId, now, dispatches>>
  /\ UNCHANGED <<avars, dvars>>

\* results.set(plugin.id, result) in the try block, errors.set(plugin.id, err)
\* in the catch block.
FedRecord(c, id, out) ==
  IF out = "ok"
  THEN [c EXCEPT !.results = @ \cup {id}]
  ELSE [c EXCEPT !.errors = @ \cup {id}]

\* The entry of the results map: the plugin's papers (raw) and the papers of
\* the entry, tagged.
FedTagged(c, id, raw) ==
  [c EXCEPT !.tagged = @ \cup {[id |-> id, raw |-> raw, papers |-> tagPapers(raw, id)]}]

\* One mapper call ends: the rate-limit step has thrown, or the plugin's search
\* has settled.
FedSettle(c, i, out) ==
  /\ c.op = "federatedSearch"
  /\ i \in 1..Len(c.tasks)
  /\ \/ c.tasks[i].stage = "inflight"
     \/ c.tasks[i].stage = "thrown" /\ out = "throw"
  /\ \E raw \in (IF out = "ok" THEN ResultPapers ELSE {<<>>}) :
       calls' = Resumed(calls, c,
                  [(IF out = "ok"
                    THEN FedTagged(FedRecord(c, c.tasks[i].id, out), c.tasks[i].id, raw)
                    ELSE FedRecord(c, c.tasks[i].id, out))
                   EXCEPT !.tasks[i].stage = "done", !.tasks[i].out = out])
  /\ last' = StepRet("federatedSearch.settle", c.tasks[i].obj, "await", <<>>)
  /\ UNCHANGED <<plugins, activePluginId, lastRequestTime, now, started, dispatches>>
  /\ UNCHANGED <<avars, dvars>>

\* A variant of the join that is over with the first mapper call that ends.
anySettled(tasks) ==
  tasks = <<>> \/ \E i \in 1..Len(tasks) : tasks[i].stage = "done"

\* Promise.allSettled: every mapper call has ended.
allSettled(tasks) == \A i \in 1..Len(tasks) : tasks[i].stage = "done"

\* federatedSearch(query) resumes after the join and returns both maps.
FedReturn(c) ==
  /\ c.op = "federatedSearch"
  /\ allSettled(c.tasks)
  /\ calls' = Finished(calls, c)
  /\ last' = StepRet("federatedSearch.return", "-", "ok",
                     [results |-> c.results, errors |-> c.errors, tasks |-> c.tasks,
                      tagged |-> c.tagged])
  /\ UNCHANGED <<plugins, activePluginId, lastRequestTime, now, started, dispatches>>
  /\ UNCHANGED <<avars, dvars>>

\* The plugin objects and ids of the federated-search specification.
FedObjs == {"lib", "bare", "local"}

FedIds == {Obj[o].id : o \in FedObjs}

NextFed ==
  \/ Setup /\ (\E o \in FedObjs : Register(o)) /\ UNCHANGED qvars
  \/ Setup /\ (\E id \in FedIds : Disable(id)) /\ UNCHANGED qvars
  \/ \E status \in [FedIds -> StatusValues] :
       /\ \A id \in FedIds : Asked(id) \/ status[id] = NoStatus
       /\ FedStart(status)
  \/ \E c \in InFlight : \E i \in 1..Len(c.tasks) : Wake(c, i)
  \/ \E c \in InFlight : \E i \in 1..Len(c.tasks) : Dispatch(c, i)
  \/ \E c \in InFlight, out \in SearchOutcomes : \E i \in 1..Len(c.tasks) : FedSettle(c, i, out)
  \/ \E c \in InFlight : FedReturn(c)
  \/ ~Setup /\ \E d \in TickSizes : Tick(d)

SpecFed == Init /\ [][NextFed]_vars

(***************************************************************************)
(* lookup(identifier)                                                       *)
(***************************************************************************)
\* Whether _enforceRateLimit asks plugin object o for its status; the answer
\* of a plugin that is not asked is left out of the choices.
StatusFits(o, status) ==
  status = NoStatus \/
    (Has(plugins, Obj[o].id) /\
     "getRateLimitStatus" \in Obj[Get(plugins, Obj[o].id).plugin].methods)

\* A variant of the fallback loop that skips no plugin.
AlreadyTriedNever(o, active) == FALSE

\* plugin.id === active?.id
AlreadyTried(o, active) == active # "-" /\ Obj[o].id = Obj[active].id

\* The position of the next plugin the fallback loop attempts, from position
\* `from` of the list on; 0 when the loop is over.
NextPlugin(c, from) ==
  LET rest == {j \in from..Len(c.snapshot) : ~AlreadyTried(c.snapshot[j], c.active)}
  IN  IF rest = {} THEN 0 ELSE CHOOSE j \in rest : \A k \in rest : j <= k

\* lookup calls _lookupWithPlugin(o, ...), which runs up to its first await;
\* `rest` are the other calls in flight.
LookupAttempt(rest, c, pos, o, status) ==
  LET r == enforceRateLimit(Task(o), lastRequestTime, status)
  IN  /\ StatusFits(o, status)
      /\ calls' = Started(rest, [c EXCEPT !.pos = pos, !.tasks = <<r.task>>])
      /\ lastRequestTime' = r.lrt
      /\ last' = StepRet("lookup.attempt", o, "await", [tried |-> c.tried])

\* lookup returns `paper` (the plugin whose Paper it is, "-" for null) or
\* ends in an error.
LookupReturn(rest, c, res, paper, status) ==
  /\ status = NoStatus
  /\ calls' = rest
  /\ lastRequestTime' = lastRequestTime
  /\ last' = StepRet("lookup.return", "-", res,
                     [paper |-> paper, tried |-> c.tried, idType |-> c.idType])

\* The fallback loop from position `from` on, up to its next await or to
\* `return null`.
LookupLoop(rest, c, from, status) ==
  IF NextPlugin(c, from) = 0
  THEN LookupReturn(rest, c, "ok", "-", status)
  ELSE LookupAttempt(rest, c, NextPlugin(c, from), c.snapshot[NextPlugin(c, from)], status)

\* lookup(identifier), up to its first await.  The calls of a behaviour are
\* made one after the other.
LookupStart(identifier, status) ==
  /\ started < MaxLookups
  /\ calls = EmptyBag
  /\ LET c == [Idle EXCEPT !.op = "lookup",
                           !.idType = detectIdentifierType(identifier),
                           !.snapshot = PluginsOf(list(plugins, TRUE, "lookup")),
                           !.active = getActive]
     IN  IF c.active # "-" /\ Obj[c.active].capabilities.lookup
         THEN LookupAttempt(calls, c, 0, c.active, status)
         ELSE LookupLoop(calls, c, 1, status)
  /\ started' = started + 1
  /\ UNCHANGED <<plugins, activePluginId, now, dispatches>>
  /\ UNCHANGED <<avars, dvars>>

\* A variant of the catch blocks that lets the error through.
LookupCaughtNot(out) == out

\* try { ... } catch (err) { console.warn(...) }: an attempt that throws goes
\* on like one that found nothing.
LookupCaught(out) == IF out = "throw" THEN "null" ELSE out

\* How an attempt's plugin method ends: with a Paper, with nothing, or with an
\* error (an Error object, as the plugins of the repository throw).
LookupOutcomes == {"paper", "null", "throw"}

\* An attempt ends: the rate-limit step has thrown, or the plugin method has
\* settled with a Paper, with nothing, or with an error.
LookupSettle(c, out, status) ==
  /\ c.op = "lookup"
  /\ \/ c.tasks[1].stage = "inflight"
     \/ c.tasks[1].stage = "thrown" /\ out = "throw"
  /\ LET t == c.tasks[1]
         d == [c EXCEPT !.tasks = <<>>,
                        !.tried = Append(@, [obj |-> t.obj, out |-> out,
                                             stage |-> t.stage, method |-> t.method])]
     IN  CASE LookupCaught(out) = "throw" ->
                LookupReturn(Finished(calls, c), d, "throw", "-", status)
           [] LookupCaught(out) = "paper" ->
                LookupReturn(Finished(calls, c), d, "ok", t.obj, status)
           [] OTHER -> LookupLoop(Finished(calls, c), d, c.pos + 1, status)
  /\ UNCHANGED <<plugins, activePluginId, now, started, dispatches>>
  /\ UNCHANGED <<avars, dvars>>

\* The plugin objects and ids of the lookup specification.
LookupObjs == {"lib", "local", "ads2"}

LookupIds == {Obj[o].id : o \in LookupObjs}

NextLookup ==
  \/ Setup /\ (\E o \in LookupObjs : Register(o)) /\ UNCHANGED qvars
  \/ Setup /\ (\E id \in LookupIds : SetActive(id)) /\ UNCHANGED qvars
  \/ Setup /\ (\E id \in LookupIds : Disable(id)) /\ UNCHANGED qvars
  \/ \E identifier \in Identifiers, status \in StatusValues : LookupStart(identifier, status)
  \/ \E c \in InFlight : \E i \in 1..Len(c.tasks) : Wake(c, i)
  \/ \E c \in InFlight : \E i \in 1..Len(c.tasks) : Dispatch(c, i)
  \/ \E c \in InFlight, out \in LookupOutcomes, status \in StatusValues :
       LookupSettle(c, out, status)
  \/ ~Setup /\ \E d \in TickSizes : Tick(d)

SpecLookup == Init /\ [][NextLookup]_vars

\* Lookups of identifiers of every type among plugins with and without the
\* methods getByDOI and getByArxiv.
MethodObjs == {"arxiv", "inspire"}

MethodIds == {Obj[o].id : o \in MethodObjs}

MethodIdentifiers ==
  {<<"1", "0", ".", "1", "0", "8", "6", "/", "3", "0", "5", "7", "7", "2">>,
   <<"2", "4", "0", "1", ".", "1", "2", "3", "4", "5">>,
   <<"2", "0", "2", "4", "A", "p", "J", ".", ".", ".", "1", "2", "3", ".", ".", "4", "5", "6", "A">>}

\* The rate-limit answers of these lookups: the status call throws, requests
\* remain, or none remain until retryAfter.
MethodStatuses == {s \in StatusValues : s.throws \/ s.remaining > 0 \/ s.retryAfter > 0}

NextMethods ==
  \/ Setup /\ (\E o \in MethodObjs : Register(o)) /\ UNCHANGED qvars
  \/ Setup /\ (\E id \in MethodIds : SetActive(id)) /\ UNCHANGED qvars
  \/ \E identifier \in MethodIdentifiers, status \in MethodStatuses :
       LookupStart(identifier, status)
  \/ \E c \in InFlight : \E i \in 1..Len(c.tasks) : Wake(c, i)
  \/ \E c \in InFlight : \E i \in 1..Len(c.tasks) : Dispatch(c, i)
  \/ \E c \in InFlight, out \in LookupOutcomes, status \in MethodStatuses :
       LookupSettle(c, out, status)
  \/ ~Setup /\ \E d \in TickSizes : Tick(d)

SpecMethods == Init /\ [][NextMethods]_vars

(***************************************************************************)
(* getPdfSources(paper).  A call record holds paper.source (id), the list    *)
(* of PDF-capable plugins (snapshot), the position in it (pos, 0 for the     *)
(* plugin named by the paper), allSources (sources) and the calls made so    *)
(* far with their results (tried).                                          *)
(***************************************************************************)
\* this.get(pluginId): the plugin object, "-" for null
get(id) == IF Has(plugins, id) THEN Get(plugins, id).plugin ELSE "-"

\* What plugin.getPdfSources(paper.sourceId) of plugin object o may resolve to.
PdfResults(o) ==
  {<<[from |-> o, n |-> 1]>>, <<[from |-> o, n |-> 1], [from |-> o, n |-> 2]>>}

\* getPdfSources calls plugin o: no rate-limit step comes before the call.
PdfDispatch(rest, c, pos, o) ==
  /\ calls' = Started(rest, [c EXCEPT !.pos = pos, !.obj = o])
  /\ last' = StepRet("getPdfSources.dispatch", o, "await",
                     [id |-> Obj[o].id, source |-> c.id, tried |-> c.tried])

\* getPdfSources ends.
PdfReturn(rest, c, res, sources) ==
  /\ calls' = rest
  /\ last' = StepRet("getPdfSources.return", "-", res,
                     [source |-> c.id, tried |-> c.tried, sources |-> sources])

\* The fan-out loop from position pos on, up to its next await or to
\* `return allSources`.
PdfLoop(rest, c, pos) ==
  IF pos > Len(c.snapshot)
  THEN PdfReturn(rest, c, "ok", c.sources)
  ELSE PdfDispatch(rest, c, pos, c.snapshot[pos])

\* getPdfSources(paper), up to its first await or its return.  The calls of a
\* behaviour are made one after the other.
PdfStart(source) ==
  /\ started < MaxQueries
  /\ calls = EmptyBag
  /\ LET c == [Idle EXCEPT !.op = "getPdfSources", !.id = source]
     IN  IF get(source) # "-" /\ Obj[get(source)].capabilities.pdfDownload
         THEN PdfDispatch(calls, c, 0, get(source))
         ELSE PdfLoop(calls,
                      [c EXCEPT !.snapshot = PluginsOf(list(plugins, TRUE, "pdfDownload"))],
                      1)
  /\ started' = started + 1
  /\ UNCHANGED <<plugins, activePluginId, lastRequestTime, now, dispatches>>
  /\ UNCHANGED <<avars, dvars>>

\* A variant of the fan-out without the try/catch.
PdfCaughtNot(out) == out

\* try { ... } catch (err) { /* Ignore */ }: how the fan-out goes on after a
\* plugin's call has ended with `out`.
PdfCaught(out) == "ok"

\* The plugin's call settles: with the plugin named by the paper its outcome is
\* the outcome of getPdfSources; in the fan-out its sources are appended, or
\* its error is dropped, and the loop goes on.
PdfSettle(c, out, result) ==
  /\ c.op = "getPdfSources"
  /\ result \in (IF out = "ok" THEN PdfResults(c.obj) ELSE {<<>>})
  /\ LET d == [c EXCEPT !.tried = Append(@, [obj |-> c.obj, out |-> out,
                                              result |-> result]),
                        !.sources = @ \o result]
     IN  IF c.pos = 0
         THEN PdfReturn(Finished(calls, c), d, out, result)
         ELSE IF PdfCaught(out) = "throw"
         THEN PdfReturn(Finished(calls, c), d, "throw", <<>>)
         ELSE PdfLoop(Finished(calls, c), d, c.pos + 1)
  /\ UNCHANGED <<plugins, activePluginId, lastRequestTime, now, started, dispatches>>
  /\ UNCHANGED <<avars, dvars>>

\* The plugin objects and ids of the PDF-source specification, and the values
\* of paper.source.
PdfObjs == {"ads", "arxivpdf", "scans", "lib"}

PdfIds == {Obj[o].id : o \in PdfObjs}

PdfSourceValues == PdfIds \cup {NULL}

NextPdf ==
  \/ Setup /\ (\E o \in PdfObjs : Register(o)) /\ UNCHANGED qvars
  \/ Setup /\ (\E id \in PdfIds : Disable(id)) /\ UNCHANGED qvars
  \/ \E source \in PdfSourceValues : PdfStart(source)
  \/ \E c \in InFlight, out \in SearchOutcomes :
       \E result \in PdfResults(c.obj) \cup {<<>>} : PdfSettle(c, out, result)

SpecPdf == Init /\ [][NextPdf]_vars

(***************************************************************************)
(* initialize() followed by queries.  The plugins are registered, initialize *)
(* runs to its end, a plugin may be enabled again, and then searches are     *)
(* made: the only way a plugin gets disabled here is that its initialize     *)
(* hook threw.                                                              *)
(***************************************************************************)
InertObjs == {"ads", "inspire", "lib"}

InertIds == {Obj[o].id : o \in InertObjs}

NextInert ==
  \/ Setup /\ (\E o \in InertObjs : Register(o)) /\ UNCHANGED qvars
  \/ Setup /\ InitializeStart /\ UNCHANGED qvars
  \/ /\ \E c \in InFlight, id \in InertIds, hook \in HookOutcomes :
          InitializeHookSettle(c, id, hook)
     /\ UNCHANGED qvars
  \/ (\E c \in InFlight : InitializeFinish(c)) /\ UNCHANGED qvars
  \/ Setup /\ (\E id \in InertIds : Enable(id)) /\ UNCHANGED qvars
  \/ calls = EmptyBag /\ \E status \in StatusValues : SearchStart(status)
  \/ \E c \in InFlight : \E i \in 1..Len(c.tasks) : Wake(c, i)
  \/ \E c \in InFlight : \E i \in 1..Len(c.tasks) : Dispatch(c, i)
  \/ \E c \in InFlight, out \in SearchOutcomes : SearchSettle(c, out)
  \/ ~Setup /\ \E d \in TickSizes : Tick(d)

SpecInert == Init /\ [][NextInert]_vars

(***************************************************************************)
(* The ADS plugin object (adsPlugin): its token and the operations that     *)
(* need it.  Tokens are strings, kept as character sequences; options.token  *)
(* absent is NULL.  initialize, shutdown and setToken have no await and are   *)
(* one step each; an authenticated operation runs to its call of the ADS API *)
(* module and is resumed when that call settles.                            *)
(***************************************************************************)
TOKEN == <<"t", "o", "k">>

TokenValues == {NULL, <<>>, TOKEN}

\* JavaScript truthiness of a token value: null and the empty string are falsy.
Truthy(t) == t # NULL /\ t # <<>>

\* A variant of the operations without the token check.
AuthenticatedAlways(t) == TRUE

\* The check that opens each authenticated operation: !this._token is false.
Authenticated(t) == Truthy(t)

AdsOperations ==
  {"search", "getRecord", "getByDOI", "getByArxiv", "getBatch", "getReferences",
   "getCitations", "getPdfSources", "getBibtex", "getBibtexBatch", "smartSearch"}

\* The function of the ADS API module an operation calls first.
AdsApiOf(op) ==
  CASE op = "search" -> "search"
    [] op = "getRecord" -> "getByBibcode"
    [] op = "getByDOI" -> "getByDOI"
    [] op = "getByArxiv" -> "getByArxiv"
    [] op = "getBatch" -> "getByBibcodes"
    [] op = "getReferences" -> "getReferences"
    [] op = "getCitations" -> "getCitations"
    [] op = "getPdfSources" -> "getByBibcode"
    [] op = "getBibtex" -> "exportBibtex"
    [] op = "getBibtexBatch" -> "exportBibtex"
    [] op = "smartSearch" -> "smartSearch"

\* The message of the error an operation throws when it has no token.
NotAuthenticated(op) ==
  IF op = "search"
  THEN "ADS plugin not authenticated. Set token before searching."
  ELSE "ADS plugin not authenticated"

\* adsApi.fn(this._token, ...): the call is made with the token read now.
ApiCall(fn) == Append(apiCalls, [fn |-> fn, token |-> token])

\* initialize(options), options.token = t
AdsInitialize(t) ==
  /\ token' = IF Truthy(t) THEN t ELSE token
  /\ last' = StepRet("ads.initialize", "ads", "ok", [token |-> t])
  /\ UNCHANGED <<plugins, activePluginId, lastRequestTime, now, calls, started,
                 dispatches, apiCalls>>
  /\ UNCHANGED dvars

\* shutdown()
AdsShutdown ==
  /\ token' = NULL
  /\ last' = StepRet("ads.shutdown", "ads", "ok", <<>>)
  /\ UNCHANGED <<plugins, activePluginId, lastRequestTime, now, calls, started,
                 dispatches, apiCalls>>
  /\ UNCHANGED dvars

\* setToken(token)
AdsSetToken(t) ==
  /\ token' = t
  /\ last' = StepRet("ads.setToken", "ads", "ok", [token |-> t])
  /\ UNCHANGED <<plugins, activePluginId, lastRequestTime, now, calls, started,
                 dispatches, apiCalls>>
  /\ UNCHANGED dvars

\* An authenticated operation, up to its throw or to its first await.
AdsStart(op) ==
  /\ started < MaxQueries
  /\ HasFreeSlot
  /\ started' = started + 1
  /\ IF ~Authenticated(token)
     THEN /\ last' = StepRet("ads.call", "ads", "throw",
                             [operation |-> op, error |-> NotAuthenticated(op)])
          /\ UNCHANGED <<calls, apiCalls>>
     ELSE /\ apiCalls' = ApiCall(AdsApiOf(op))
          /\ calls' = Started(calls, [Idle EXCEPT !.op = "ads", !.idType = op, !.pos = 1])
          /\ last' = StepRet("ads.call", "ads", "await",
                             [operation |-> op, error |-> ""])
  /\ UNCHANGED <<plugins, activePluginId, lastRequestTime, now, dispatches, token>>
  /\ UNCHANGED dvars

\* The call of the ADS API module settles: its error is the error of the
\* operation; getPdfSources goes on to getEsources after getByBibcode; every
\* other operation returns.
AdsSettle(c, out) ==
  /\ c.op = "ads"
  /\ IF out = "ok" /\ c.idType = "getPdfSources" /\ c.pos = 1
     THEN /\ apiCalls' = ApiCall("getEsources")
          /\ calls' = Resumed(calls, c, [c EXCEPT !.pos = 2])
          /\ last' = StepRet("ads.resume", "ads", "await",
                             [operation |-> c.idType, error |-> ""])
     ELSE /\ calls' = Finished(calls, c)
          /\ last' = StepRet("ads.return", "ads", out,
                             [operation |-> c.idType,
                              error |-> IF out = "throw" THEN "adsApi" ELSE ""])
          /\ UNCHANGED apiCalls
  /\ UNCHANGED <<plugins, activePluginId, lastRequestTime, now, started, dispatches,
                 token>>
  /\ UNCHANGED dvars

NextAds ==
  \/ \E t \in TokenValues : AdsInitialize(t)
  \/ AdsShutdown
  \/ \E t \in TokenValues : AdsSetToken(t)
  \/ \E op \in AdsOperations : AdsStart(op)
  \/ \E c \in InFlight, out \in SearchOutcomes : AdsSettle(c, out)

SpecAds == Init /\ [][NextAds]_vars

(***************************************************************************)
(* translateQueryToADS(query).  Strings are character sequences; an absent   *)
(* string field is NULL.  query.year is the sequence of the numbers given,    *)
(* each in its decimal rendering: empty when absent, one number, or the two   *)
(* numbers of an array.  query.keywords is the sequence of keywords, empty    *)
(* when absent.                                                             *)
(***************************************************************************)
\* `key:"value"`
QuotedClause(key, value) == key \o <<":", "\"">> \o value \o <<"\"">>

\* `key:value`
BareClause(key, value) == key \o <<":">> \o value

\* /^arXiv:/i.test(s)
ArxivPrefixTest(s) ==
  /\ Len(s) >= 6
  /\ s[1] \in {"a", "A"} /\ s[2] \in {"r", "R"} /\ s[3] \in {"x", "X"}
  /\ s[4] \in {"i", "I"} /\ s[5] \in {"v", "V"} /\ s[6] = ":"

\* A variant of the translator that keeps the arXiv: prefix.
stripArxivPrefixNot(s) == s

\* arxivId.replace(/^arXiv:/i, '')
stripArxivPrefix(s) == IF ArxivPrefixTest(s) THEN SubSeq(s, 7, Len(s)) ELSE s

\* parts.join(sep)
RECURSIVE join(_, _)
join(parts, sep) ==
  IF parts = <<>> THEN <<>>
  ELSE IF Len(parts) = 1 THEN parts[1]
  ELSE parts[1] \o sep \o join(Tail(parts), sep)

\* One clause if the field is set, none otherwise.
PartIf(cond, clause) == IF cond THEN <<clause>> ELSE <<>>

\* `year:[a TO b]` for an array, `year:a` for a number
YearClause(year) ==
  IF Len(year) = 2
  THEN <<"y", "e", "a", "r", ":", "[">> \o year[1] \o <<" ", "T", "O", " ">> \o year[2] \o <<"]">>
  ELSE BareClause(<<"y", "e", "a", "r">>, year[1])

\* `(keyword:"k1" OR keyword:"k2")`
KeywordsClause(keywords) ==
  <<"(">>
    \o join([i \in 1..Len(keywords) |-> QuotedClause(<<"k", "e", "y", "w", "o", "r", "d">>, keywords[i])],
            <<" ", "O", "R", " ">>)
    \o <<")">>

translateQueryToADS(query) ==
  IF Truthy(query.raw) THEN query.raw
  ELSE IF Truthy(query.bibcode) THEN QuotedClause(<<"b", "i", "b", "c", "o", "d", "e">>, query.bibcode)
  ELSE IF Truthy(query.doi) THEN QuotedClause(<<"d", "o", "i">>, query.doi)
  ELSE IF Truthy(query.arxivId)
  THEN BareClause(<<"a", "r", "x", "i", "v">>, stripArxivPrefix(query.arxivId))
  ELSE join(PartIf(Truthy(query.title), QuotedClause(<<"t", "i", "t", "l", "e">>, query.title))
              \o PartIf(Truthy(query.author), QuotedClause(<<"a", "u", "t", "h", "o", "r">>, query.author))
              \o PartIf(Truthy(query.abstract), QuotedClause(<<"a", "b", "s">>, query.abstract))
              \o PartIf(Truthy(query.fullText), QuotedClause(<<"f", "u", "l", "l">>, query.fullText))
              \o PartIf(query.year # <<>>, YearClause(query.year))
              \o PartIf(query.keywords # <<>>, KeywordsClause(query.keywords)),
            <<" ">>)

\* The queries translated: every field absent or set, raw also empty, arxivId
\* with and without the arXiv: prefix.
Queries ==
  [raw : {NULL, <<>>, <<"a", " ", "b">>},
   bibcode : {NULL, <<"2", "0", "2", "4", "A", "p", "J", ".", ".", ".", "1", "2", "3", ".", ".", "4", "5", "6", "A">>},
   doi : {NULL, <<"1", "0", ".", "1", "/", "x">>},
   arxivId : {NULL, <<"2", "4", "0", "1", ".", "1", "2", "3", "4", "5">>, <<"a", "r", "X", "i", "v", ":", "2", "4", "0", "1", ".", "1", "2", "3", "4", "5">>,
              <<"A", "R", "X", "I", "V", ":", "2", "4", "0", "1", ".", "1">>},
   title : {NULL, <<"d", "a", "r", "k", " ", "m", "a", "t", "t", "e", "r">>},
   author : {NULL, <<"W", "i", "t", "t", "e", "n">>},
   abstract : {NULL, <<"b">>},
   fullText : {NULL, <<"f">>},
   year : {<<>>, <<<<"2", "0", "2", "3">>>>, <<<<"2", "0", "2", "0">>, <<"2", "0", "2", "3">>>>},
   keywords : {<<>>, <<<<"k">>, <<"m">>>>}]

Translate(query) ==
  /\ last' = StepRet("translateQueryToADS", "ads", "ok",
                     [query |-> query, result |-> translateQueryToADS(query)])
  /\ UNCHANGED <<plugins, activePluginId, lastRequestTime, now, calls, started,
                 dispatches, token, apiCalls>>
  /\ UNCHANGED dvars

\* One translation in a behaviour: the translator keeps no state.
NextTranslate == last.op = "new" /\ \E query \in Queries : Translate(query)

SpecTranslate == Init /\ [][NextTranslate]_vars

(***************************************************************************)
(* esourcesToPdfSources(esources, bibcode, arxivId).  An esource record has  *)
(* link_type, type and url, each a string (a character sequence) or absent   *)
(* (NULL).  Entry types are the values of PDF_SOURCE_TYPES.                  *)
(***************************************************************************)
EPRINT_PDF == <<"E", "P", "R", "I", "N", "T", "_", "P", "D", "F">>
PUB_PDF == <<"P", "U", "B", "_", "P", "D", "F">>
ADS_PDF == <<"A", "D", "S", "_", "P", "D", "F">>

\* s.includes(sub)
Includes(s, sub) ==
  \E i \in 0..(Len(s) - Len(sub)) : SubSeq(s, i + 1, i + Len(sub)) = sub

\* s.startsWith(prefix)
startsWith(s, prefix) == Len(s) >= Len(prefix) /\ SubSeq(s, 1, Len(prefix)) = prefix

\* source.link_type || source.type || ''
LinkTypeOf(source) ==
  IF Truthy(source.link_type) THEN source.link_type
  ELSE IF Truthy(source.type) THEN source.type
  ELSE <<>>

\* !(!url || !url.startsWith('http'))
UsableUrl(url) == Truthy(url) /\ startsWith(url, <<"h", "t", "t", "p">>)

\* sources.push({type, url, label, requiresAuth, priority: priority++})
Push(acc, type, url, label, requiresAuth) ==
  [sources |-> Append(acc.sources,
                      [type |-> type, url |-> url, label |-> label,
                       requiresAuth |-> requiresAuth, priority |-> acc.priority]),
   priority |-> acc.priority + 1]

\* One turn of the loop over the esource records.
PushEsource(acc, source) ==
  IF ~UsableUrl(source.url) THEN acc
  ELSE IF Includes(LinkTypeOf(source), EPRINT_PDF)
  THEN Push(acc, "arxiv", source.url, "arXiv PDF", FALSE)
  ELSE IF Includes(LinkTypeOf(source), PUB_PDF)
  THEN Push(acc, "publisher", source.url, "Publisher PDF", TRUE)
  ELSE IF Includes(LinkTypeOf(source), ADS_PDF)
  THEN Push(acc, "ads_scan", source.url, "ADS Scan", FALSE)
  ELSE acc

RECURSIVE PushEsources(_, _)
PushEsources(acc, esources) ==
  IF esources = <<>> THEN acc
  ELSE PushEsources(PushEsource(acc, Head(esources)), Tail(esources))

\* A variant of the conversion that keeps the version suffix.
stripVersionNot(s) == s

\* s.replace(/v\d+$/, '')
stripVersion(s) ==
  LET at == {i \in 1..(Len(s) - 1) : s[i] = "v" /\ AllOf(s, i + 1, Len(s), DigitChars)}
  IN  IF at = {} THEN s ELSE SubSeq(s, 1, (CHOOSE i \in at : TRUE) - 1)

\* `https://arxiv.org/pdf/${cleanId}.pdf`
ArxivPdfUrl(arxivId) ==
  <<"h", "t", "t", "p", "s", ":", "/", "/", "a", "r", "x", "i", "v", ".", "o", "r", "g", "/", "p", "d", "f", "/">>
    \o stripVersion(stripArxivPrefix(arxivId)) \o <<".", "p", "d", "f">>

esourcesToPdfSources(esources, arxivId) ==
  LET acc == PushEsources([sources |-> <<>>, priority |-> 0], esources)
  IN  IF (~\E i \in 1..Len(acc.sources) : acc.sources[i].type = "arxiv") /\ Truthy(arxivId)
      THEN Push(acc, "arxiv", ArxivPdfUrl(arxivId), "arXiv PDF", FALSE).sources
      ELSE acc.sources

\* The esource records, the lists of them and the arXiv identifiers converted.
EsourceRecords ==
  [link_type : {NULL, EPRINT_PDF, PUB_PDF, ADS_PDF, <<"E", "P", "R", "I", "N", "T", "_", "H", "T", "M", "L">>},
   type : {NULL, EPRINT_PDF},
   url : {NULL, <<"f", "t", "p", ":", "/", "/", "a">>, <<"h", "t", "t", "p", ":", "/", "/", "a">>}]

EsourceLists == UNION {[1..n -> EsourceRecords] : n \in 0..MaxEsources}

ArxivIdValues ==
  {NULL, <<>>, <<"2", "4", "0", "1", ".", "1", "2", "3", "4", "5", "v", "2">>, <<"a", "r", "X", "i", "v", ":", "h", "e", "p", "-", "t", "h", "/", "9", "9", "0", "1", "0", "0", "1">>}

ConvertEsources(esources, arxivId) ==
  /\ last' = StepRet("esourcesToPdfSources", "ads", "ok",
                     [esources |-> esources, arxivId |-> arxivId,
                      sources |-> esourcesToPdfSources(esources, arxivId)])
  /\ UNCHANGED <<plugins, activePluginId, lastRequestTime, now, calls, started,
                 dispatches, token, apiCalls>>
  /\ UNCHANGED dvars

\* One conversion in a behaviour: the conversion keeps no state.
NextConvert ==
  /\ last.op = "new"
  /\ \E esources \in EsourceLists, arxivId \in ArxivIdValues :
       ConvertEsources(esources, arxivId)

SpecConvert == Init /\ [][NextConvert]_vars

(***************************************************************************)
(* The mobile database module: initDatabase, saveDatabase, closeDatabase,    *)
(* isInitialized and getStats over the module-level db, dbPath, libraryPath   *)
(* and SQL.  The sql.js database object is DATABASE, the loaded sql.js        *)
(* module SQLJS; sql.js and the Capacitor Filesystem are collaborators whose   *)
(* calls succeed or throw.                                                  *)
(***************************************************************************)
DATABASE == <<"database">>

SQLJS == <<"sql.js">>

LibPaths == {<<"L", "i", "b">>, <<"O", "t", "h", "e", "r">>}

\* `${libPath}/library.sqlite`
DbPathOf(libPath) == libPath \o <<"/", "l", "i", "b", "r", "a", "r", "y", ".", "s", "q", "l", "i", "t", "e">>

ZeroStats == [total |-> 0, unread |-> 0, reading |-> 0, read |-> 0]

\* What the four COUNT(*) queries of getStats may answer.
StatsAnswers == {ZeroStats, [total |-> 3, unread |-> 1, reading |-> 1, read |-> 1]}

\* closeDatabase has run: the in-flight initDatabase calls that have opened the
\* database are marked.
MarkClosedOf(c) ==
  IF c.op = "initDatabase" /\ c.stage = "writeFile" THEN [c EXCEPT !.closed = TRUE] ELSE c

RECURSIVE MarkClosed(_)
MarkClosed(cs) ==
  IF cs = EmptyBag
  THEN EmptyBag
  ELSE LET c == CHOOSE x \in BagToSet(cs) : TRUE
       IN  Started(MarkClosed(Finished(cs, c)), MarkClosedOf(c))

\* initDatabase(libPath), up to its first await: initSqlJs if sql.js is not
\* loaded yet, Filesystem.readFile otherwise.
InitDatabaseStart(libPath) ==
  /\ started < MaxQueries
  /\ HasFreeSlot
  /\ started' = started + 1
  /\ libraryPath' = libPath
  /\ dbPath' = DbPathOf(libPath)
  /\ calls' = Started(calls, [Idle EXCEPT !.op = "initDatabase",
                                          !.stage = IF SQL = NULL THEN "initSqlJs"
                                                    ELSE "readFile"])
  /\ last' = StepRet("initDatabase", "-", "await", <<>>)
  /\ UNCHANGED <<plugins, activePluginId, lastRequestTime, now, dispatches, token,
                 apiCalls, db, SQL, fsWrites>>

\* initSqlJs settles: SQL is set and readFile is awaited, or initDatabase fails.
InitSqlJsSettle(c, out) ==
  /\ c.op = "initDatabase"
  /\ c.stage = "initSqlJs"
  /\ IF out = "ok"
     THEN /\ SQL' = SQLJS
          /\ calls' = Resumed(calls, c, [c EXCEPT !.stage = "readFile"])
          /\ last' = StepRet("initDatabase.initSqlJs", "-", "await", <<>>)
     ELSE /\ SQL' = SQL
          /\ calls' = Finished(calls, c)
          /\ last' = StepRet("initDatabase.return", "-", "throw", [closed |-> FALSE])
  /\ UNCHANGED <<plugins, activePluginId, lastRequestTime, now, dispatches, token,
                 apiCalls, started, db, dbPath, libraryPath, fsWrites>>

\* try { const data = db.export(); ... } catch (e) { console.error(...) }: whether
\* saveDatabase gets to Filesystem.writeFile.
exportCaught(export) == export

\* if (!db || !dbPath) return;
canSave(d, path) == d # NULL /\ Truthy(path)

\* readFile settles: the database is opened from the file or created; the schema
\* is created (createSchema may throw: initDatabase fails) and saveDatabase() is
\* called, which runs to its Filesystem.writeFile or returns at once.
InitReadSettle(c, out, schema, export) ==
  /\ c.op = "initDatabase"
  /\ c.stage = "readFile"
  /\ db' = DATABASE
  /\ IF schema = "throw"
     THEN /\ calls' = Finished(calls, c)
          /\ last' = StepRet("initDatabase.return", "-", "throw", [closed |-> FALSE])
          /\ UNCHANGED fsWrites
     ELSE IF canSave(DATABASE, dbPath) /\ exportCaught(export) = "ok"
     THEN /\ fsWrites' = Append(fsWrites, dbPath)
          /\ calls' = Resumed(calls, c, [c EXCEPT !.stage = "writeFile"])
          /\ last' = StepRet("initDatabase.open", "-", "await", <<>>)
     ELSE /\ calls' = Finished(calls, c)
          /\ last' = StepRet("initDatabase.return", "-", "ok", [closed |-> FALSE])
          /\ UNCHANGED fsWrites
  /\ UNCHANGED <<plugins, activePluginId, lastRequestTime, now, dispatches, token,
                 apiCalls, started, dbPath, libraryPath, SQL>>

\* The writeFile of initDatabase's saveDatabase settles (its error is caught):
\* initDatabase returns true.
InitWriteSettle(c, out) ==
  /\ c.op = "initDatabase"
  /\ c.stage = "writeFile"
  /\ calls' = Finished(calls, c)
  /\ last' = StepRet("initDatabase.return", "-", "ok", [closed |-> c.closed])
  /\ UNCHANGED <<plugins, activePluginId, lastRequestTime, now, dispatches, token,
                 apiCalls, started, db, dbPath, libraryPath, SQL, fsWrites>>

\* saveDatabase(), up to its return or to its Filesystem.writeFile.
SaveDatabaseStart(export) ==
  /\ started < MaxQueries
  /\ HasFreeSlot
  /\ started' = started + 1
  /\ IF canSave(db, dbPath) /\ exportCaught(export) = "ok"
     THEN /\ fsWrites' = Append(fsWrites, dbPath)
          /\ calls' = Started(calls, [Idle EXCEPT !.op = "saveDatabase",
                                                  !.stage = "writeFile"])
          /\ last' = StepRet("saveDatabase", "-", "await", <<>>)
     ELSE /\ last' = StepRet("saveDatabase", "-", "ok", <<>>)
          /\ UNCHANGED <<fsWrites, calls>>
  /\ UNCHANGED <<plugins, activePluginId, lastRequestTime, now, dispatches, token,
                 apiCalls, db, dbPath, libraryPath, SQL>>

\* The writeFile of saveDatabase settles (its error is caught).
SaveWriteSettle(c, out) ==
  /\ c.op = "saveDatabase"
  /\ calls' = Finished(calls, c)
  /\ last' = StepRet("saveDatabase.return", "-", "ok", <<>>)
  /\ UNCHANGED <<plugins, activePluginId, lastRequestTime, now, dispatches, token,
                 apiCalls, started, db, dbPath, libraryPath, SQL, fsWrites>>

\* A variant of closeDatabase that keeps the closed database.
AfterCloseKept(d) == d

\* db = null
AfterClose(d) == NULL

\* closeDatabase()
CloseDatabase ==
  /\ IF db # NULL
     THEN /\ db' = AfterClose(db)
          /\ calls' = MarkClosed(calls)
     ELSE UNCHANGED <<db, calls>>
  /\ last' = StepRet("closeDatabase", "-", "ok", <<>>)
  /\ UNCHANGED <<plugins, activePluginId, lastRequestTime, now, dispatches, token,
                 apiCalls, started, dbPath, libraryPath, SQL, fsWrites>>

\* isInitialized()
IsInitialized ==
  /\ last' = StepRet("isInitialized", "-", "ok", [value |-> db # NULL])
  /\ UNCHANGED <<plugins, activePluginId, lastRequestTime, now, dispatches, token,
                 apiCalls, calls, started, db, dbPath, libraryPath, SQL, fsWrites>>

\* getStats(): zeros without a database or when a query throws.
GetStats(out, answer) ==
  /\ last' = StepRet("getStats", "-", "ok",
                     [stats |-> IF db = NULL \/ out = "throw" THEN ZeroStats ELSE answer])
  /\ UNCHANGED <<plugins, activePluginId, lastRequestTime, now, dispatches, token,
                 apiCalls, calls, started, db, dbPath, libraryPath, SQL, fsWrites>>

NextDb ==
  \/ \E libPath \in LibPaths : InitDatabaseStart(libPath)
  \/ \E c \in InFlight, out \in SearchOutcomes : InitSqlJsSettle(c, out)
  \/ \E c \in InFlight, out \in SearchOutcomes, schema \in SearchOutcomes,
        export \in SearchOutcomes : InitReadSettle(c, out, schema, export)
  \/ \E c \in InFlight, out \in SearchOutcomes : InitWriteSettle(c, out)
  \/ \E export \in SearchOutcomes : SaveDatabaseStart(export)
  \/ \E c \in InFlight, out \in SearchOutcomes : SaveWriteSettle(c, out)
  \/ CloseDatabase
  \/ IsInitialized
  \/ \E out \in SearchOutcomes, answer \in StatsAnswers : GetStats(out, answer)

SpecDb == Init /\ [][NextDb]_vars

(***************************************************************************)
(* Properties of the registry.                                              *)
(***************************************************************************)
IsRegistered(id) == Has(plugins, id)

\* C1: a successful register while no plugin is active makes the registered
\* plugin active; when unregister removes the active plugin the first remaining
\* plugin in registration order becomes active, and no plugin is active when
\* none remains; after unregister empties the registry no plugin is active.
C1_AutoPromotion ==
  /\ (last.op = "register" /\ last.res = "ok" /\ last.was = NULL)
       => activePluginId = last.id
  /\ (last.op = "unregister" /\ last.res = "ok" /\ last.was = last.id)
       => activePluginId = IF plugins # <<>> THEN plugins[1].id ELSE NULL
  /\ (last.op = "unregister" /\ last.res = "ok" /\ plugins = <<>>)
       => activePluginId = NULL

\* C1 witness: the active plugin has just been unregistered while two others
\* remain, and the one registered first of them is now active.
C1_Witness ==
  /\ last.op = "unregister" /\ last.res = "ok" /\ last.was = last.id
  /\ Len(plugins) = 2
  /\ activePluginId = plugins[1].id

\* C2 (as claimed): the active plugin, when there is one, is registered and
\* enabled.
C2_ActiveIsEnabled ==
  activePluginId # NULL =>
    /\ IsRegistered(activePluginId)
    /\ Get(plugins, activePluginId).enabled

\* C3 (as claimed): with at least one registered plugin, a plugin is active.
C3_ActiveUnlessEmpty == plugins # <<>> => activePluginId # NULL

\* C3 (amended): no plugin is active when the registry is empty; with a
\* non-empty registry the pointer becomes none only by disable() of the active
\* plugin when no registered plugin is left enabled.
C3_NoneOnlyByDisable ==
  /\ [](plugins = <<>> => activePluginId = NULL)
  /\ [][(activePluginId' = NULL /\ plugins' # <<>>) =>
          \/ (activePluginId = NULL /\ plugins # <<>>)
          \/ /\ last'.op = "disable" /\ last'.res = "ok" /\ last'.was = last'.id
             /\ \A i \in 1..Len(plugins') : ~plugins'[i].enabled]_vars

\* C3 witness: the only enabled plugin, the active one, has been disabled.
C3_Witness ==
  /\ last.op = "disable" /\ last.res = "ok" /\ last.was = last.id
  /\ plugins # <<>>
  /\ activePluginId = NULL

\* The plugins the claim C4 calls invalid: a missing id, name, capabilities or
\* auth, or an id that is not a lowercase letter followed by lowercase
\* letters, digits, "-" or "_".
C4_Invalid(o) ==
  \/ Obj[o].id = <<>>
  \/ ~Obj[o].name
  \/ ~Obj[o].capabilities.present
  \/ ~Obj[o].auth
  \/ Obj[o].id[1] \notin LowerChars
  \/ \E i \in 2..Len(Obj[o].id) :
        Obj[o].id[i] \notin LowerChars \cup DigitChars \cup {"_", "-"}

\* C4: register fails for an invalid plugin and for an id already registered; a
\* failed register changes neither the registry (so the id keeps its first
\* plugin), nor an enabled flag, nor the active pointer.
C4_RegisterRejects ==
  [][last'.op = "register" =>
       /\ (C4_Invalid(last'.obj) \/ IsRegistered(last'.id)) => last'.res = "throw"
       /\ last'.res = "throw" => UNCHANGED <<plugins, activePluginId>>]_vars

\* C4 witness: a second plugin object with the id "ads" has been refused and the
\* registry still holds the first one.
C4_Witness ==
  /\ last.op = "register" /\ last.obj = "ads2" /\ last.res = "throw"
  /\ IsRegistered(ADS)
  /\ Get(plugins, ADS).plugin = "ads"


(***************************************************************************)
(* Properties of search and of the rate limiter.                            *)
(***************************************************************************)
\* C6 (as claimed): a request is dispatched to a plugin no sooner than that
\* plugin's minimum delay after the previous request dispatched to it.
C6_DispatchSpacing ==
  (last.op = "dispatch" /\ last.ret.prev.n > 0)
    => now - last.ret.prev.at >= getMinDelay(last.ret.id)

\* C7 (as claimed): a request made less than the minimum delay after the last
\* dispatch to the plugin, while no other request to it is being prepared, is
\* dispatched no sooner than the minimum delay after that dispatch, and the
\* recorded last-request time is then the time of this dispatch.
C7_SecondCallDelayed ==
  (last.op = "dispatch" /\ last.ret.due # 0)
    => /\ now >= last.ret.due
       /\ lastRequestTime[last.ret.id] = now

\* The plugin object that is active, for a pointer that is set.
ActiveObj == Get(plugins, activePluginId).plugin

\* C10: search fails at once, invoking no plugin method and leaving the
\* last-request times alone, when no plugin is active or the active plugin has
\* no search capability; otherwise its one request goes to the plugin that is
\* active when it is called; it ends in an error when that plugin's search
\* does.
C10_SearchActiveOnly ==
  [][/\ last'.op = "search" =>
          IF activePluginId = NULL \/ ~Obj[ActiveObj].capabilities.search
          THEN /\ last'.res = "throw"
               /\ last'.ret.invoked = <<>>
               /\ UNCHANGED <<lastRequestTime, dispatches, calls>>
          ELSE /\ last'.res = "await"
               /\ \E c \in BagToSet(calls') :
                    /\ calls' = Started(calls, c)
                    /\ c.op = "search" /\ c.obj = ActiveObj
                    /\ Len(c.tasks) = 1 /\ c.tasks[1].obj = ActiveObj
     /\ last'.op = "dispatch" =>
          /\ \E c \in InFlight : c.op = "search" /\ c.obj = last'.obj
                                  /\ c.tasks[1].obj = last'.obj
          /\ \A id \in AllIds : id # Obj[last'.obj].id => dispatches'[id] = dispatches[id]
     /\ last'.op # "dispatch" => dispatches' = dispatches
     /\ last'.op = "search.return" => (last'.ret.out = "throw" => last'.res = "throw")]_vars

\* C10 witness: with two plugins registered, the search of the active one has
\* thrown and search has ended with that error; nothing was dispatched to the
\* other plugin.
C10_Witness ==
  /\ last.op = "search.return" /\ last.res = "throw" /\ last.ret.stage = "inflight"
  /\ Len(plugins) >= 2
  /\ \A id \in AllIds : id # Obj[last.obj].id => dispatches[id].n = 0
  /\ dispatches[Obj[last.obj].id].n > 0

(***************************************************************************)
(* Properties of federatedSearch.                                           *)
(***************************************************************************)
\* C5: federatedSearch never ends in an error; when it returns, the search of
\* every enabled search-capable plugin has settled and the id of each such
\* plugin is in exactly one of the two maps: in results when its search
\* succeeded, in errors when its search or its rate-limit step threw.
C5_FederatedSettlesAll ==
  /\ last.op \in {"federatedSearch", "federatedSearch.settle", "federatedSearch.return"}
       => last.res # "throw"
  /\ last.op = "federatedSearch.return" =>
       LET searchable == list(plugins, TRUE, "search")
           ids == {searchable[i].id : i \in 1..Len(searchable)}
           t == last.ret.tasks
       IN  /\ last.ret.results \cup last.ret.errors = ids
           /\ last.ret.results \cap last.ret.errors = {}
           /\ {t[i].id : i \in 1..Len(t)} = ids
           /\ \A i \in 1..Len(t) :
                /\ t[i].stage = "done"
                /\ t[i].out = "ok" <=> t[i].id \in last.ret.results
                /\ t[i].out = "throw" <=> t[i].id \in last.ret.errors

\* C5 witness: federatedSearch has returned one result and one error while a
\* third registered plugin, without search capability, is in neither map.
C5_Witness ==
  /\ last.op = "federatedSearch.return"
  /\ Cardinality(last.ret.results) = 1
  /\ Cardinality(last.ret.errors) = 1
  /\ Len(plugins) = 3

(***************************************************************************)
(* Properties of lookup.                                                    *)
(***************************************************************************)
\* The order of attempts the claim C8 gives: the active plugin, when it has
\* the lookup capability, and then the other enabled lookup-capable plugins
\* in registration order.
C8_Order ==
  LET Other(r) == /\ r.enabled
                  /\ Obj[r.plugin].capabilities.lookup
                  /\ r.id # activePluginId
      others == SelectSeq(plugins, Other)
  IN  (IF activePluginId # NULL /\ Obj[ActiveObj].capabilities.lookup
       THEN <<ActiveObj>>
       ELSE <<>>)
      \o [i \in 1..Len(others) |-> others[i].plugin]

\* C8: the attempts of a lookup follow that order, one plugin after the other,
\* each made only after every earlier one has found nothing or thrown; lookup
\* returns the Paper of the first attempt that finds one, and null when every
\* plugin of the order has been attempted without a Paper.
C8_LookupOrder ==
  /\ (last.op = "dispatch" /\ last.ret.call = "lookup") =>
       /\ Len(last.ret.tried) < Len(C8_Order)
       /\ last.obj = C8_Order[Len(last.ret.tried) + 1]
       /\ \A i \in 1..Len(last.ret.tried) : last.ret.tried[i].out # "paper"
  /\ (last.op = "lookup.return" /\ last.res = "ok") =>
       LET tried == last.ret.tried
           n == Len(tried)
       IN  /\ n <= Len(C8_Order)
           /\ \A i \in 1..n : tried[i].obj = C8_Order[i]
           /\ \A i \in 1..(n - 1) : tried[i].out # "paper"
           /\ IF last.ret.paper = "-"
              THEN n = Len(C8_Order) /\ \A i \in 1..n : tried[i].out # "paper"
              ELSE n > 0 /\ tried[n].out = "paper" /\ last.ret.paper = tried[n].obj

\* C8 witness: the active plugin's getByDOI has returned null, the second
\* plugin has returned a Paper, and lookup has returned that Paper.
C8_Witness ==
  /\ last.op = "lookup.return" /\ last.res = "ok"
  /\ Len(last.ret.tried) = 2
  /\ last.ret.tried[1].obj = ActiveObj
  /\ last.ret.tried[1].method = "getByDOI"
  /\ last.ret.tried[1].out = "null"
  /\ last.ret.tried[2].out = "paper"
  /\ last.ret.paper = last.ret.tried[2].obj

C11_Tagged(raw, papers, id) ==
  /\ Len(papers) = Len(raw)
  /\ \A i \in 1..Len(raw) :
       /\ DOMAIN papers[i] = DOMAIN raw[i] \cup {"source"}
       /\ papers[i]["source"] = id
       /\ \A f \in DOMAIN raw[i] \ {"source"} : papers[i][f] = raw[i][f]

C12_DisableDemotes ==
  [][last'.op = "disable" =>
       IF ~IsRegistered(last'.id)
       THEN last'.res = "throw" /\ UNCHANGED <<plugins, activePluginId>>
       ELSE /\ last'.res = "ok"
            /\ Len(plugins') = Len(plugins)
            /\ \A i \in 1..Len(plugins) :
                 /\ plugins'[i].id = plugins[i].id
                 /\ plugins'[i].plugin = plugins[i].plugin
                 /\ plugins'[i].enabled = (plugins[i].enabled /\ plugins[i].id # last'.id)
            /\ LET en == {i \in 1..Len(plugins') : plugins'[i].enabled}
               IN  IF activePluginId # last'.id
                   THEN activePluginId' = activePluginId
                   ELSE IF en = {}
                   THEN activePluginId' = NULL
                   ELSE activePluginId' =
                          plugins'[CHOOSE i \in en : \A j \in en : i <= j].id]_vars

\* C12 witness: the active plugin, registered second of three, has been
\* disabled while the first was disabled already: the third is now active.
C12_Witness ==
  /\ last.op = "disable" /\ last.res = "ok" /\ last.was = last.id
  /\ Len(plugins) = 3
  /\ plugins[2].id = last.id
  /\ ~plugins[1].enabled
  /\ activePluginId = plugins[3].id

\* Whether plugin object o declares a capability without the matching method.
C13_Unbacked(o) ==
  LET caps == Obj[o].capabilities
      m == Obj[o].methods
  IN  \/ caps.search /\ "search" \notin m
      \/ caps.lookup /\ "getRecord" \notin m
      \/ caps.references /\ "getReferences" \notin m
      \/ caps.citations /\ "getCitations" \notin m
      \/ caps.pdfDownload /\ ("getPdfSources" \notin m \/ "downloadPdf" \notin m)
      \/ caps.bibtex /\ "getBibtex" \notin m

\* C13 (as claimed): no plugin that declares one of the capabilities search,
\* lookup, references, citations, pdfDownload, bibtex without the matching
\* method is ever in the registry.
C13_NoUnbackedCapability ==
  \A i \in 1..Len(plugins) : ~C13_Unbacked(plugins[i].plugin)

\* C14 (as claimed): where plugins are disabled only by a throwing initialize
\* hook of a completed initialize(), every request the manager dispatches goes
\* to a plugin that is enabled.
C14_DisabledIsInert ==
  last.op = "dispatch" =>
    /\ IsRegistered(last.ret.id)
    /\ Get(plugins, last.ret.id).enabled

\* C15: no step of initialize() ends in an error; it returns when every hook
\* has settled; a hook that throws clears the enabled flag of its plugin (of
\* the registration initialize() holds) and a hook that resolves clears none;
\* no step of initialize() changes another plugin's enabled flag, the
\* registered plugins or their order, or the active pointer.
C15_InitializeDisablesFailed ==
  [][/\ last'.op = "initialize" =>
          /\ last'.res \in {"await", "ok"}
          /\ UNCHANGED <<plugins, activePluginId>>
          /\ last'.res = "ok" =>
               \E c \in InFlight : /\ c.op = "initialize" /\ c.pending = {}
                                    /\ calls' = Finished(calls, c)
     /\ last'.op = "initializeHook" =>
          /\ activePluginId' = activePluginId
          /\ Len(plugins') = Len(plugins)
          /\ \E c \in InFlight :
               /\ c.op = "initialize" /\ last'.id \in c.pending
               /\ calls' = Resumed(calls, c, [c EXCEPT !.pending = @ \ {last'.id},
                                                        !.live = @ \ {last'.id}])
               /\ \A i \in 1..Len(plugins) :
                    /\ plugins'[i].id = plugins[i].id
                    /\ plugins'[i].plugin = plugins[i].plugin
                    /\ plugins'[i].enabled =
                         (plugins[i].enabled /\
                          ~(last'.res = "throw" /\ plugins[i].id = last'.id
                            /\ last'.id \in c.live))]_vars

\* C15 witness: initialize() has returned; a plugin whose hook threw is
\* registered and disabled, next to a plugin that is enabled.
C15_Witness ==
  /\ last.op = "initialize" /\ last.res = "ok"
  /\ \E i, j \in 1..Len(plugins) :
       /\ ~plugins[i].enabled
       /\ "initialize" \in Obj[plugins[i].plugin].methods
       /\ plugins[j].enabled

\* C16: shutdown() invokes the shutdown hook of every registered plugin that
\* has one; a hook that throws leaves the other hooks under way and the
\* registry as it is; no step of shutdown() ends in an error; it returns when
\* every hook has settled, and then the registry is empty and no plugin is
\* active.
C16_ShutdownClearsAll ==
  [][/\ (last'.op = "shutdown" /\ last'.res # "ok") =>
          /\ last'.res = "await"
          /\ UNCHANGED <<plugins, activePluginId>>
          /\ \E c \in BagToSet(calls') :
               /\ calls' = Started(calls, c)
               /\ c.op = "shutdown"
               /\ c.pending = {plugins[i].id : i \in
                                 {j \in 1..Len(plugins) :
                                    "shutdown" \in Obj[plugins[j].plugin].methods}}
     /\ last'.op = "shutdownHook" =>
          /\ UNCHANGED <<plugins, activePluginId>>
          /\ \E c \in InFlight :
               /\ c.op = "shutdown" /\ last'.id \in c.pending
               /\ calls' = Resumed(calls, c, [c EXCEPT !.pending = @ \ {last'.id}])
     /\ (last'.op = "shutdown" /\ last'.res = "ok") =>
          /\ \E c \in InFlight : c.op = "shutdown" /\ c.pending = {}
          /\ plugins' = <<>>
          /\ activePluginId' = NULL]_vars

\* C16 witness: during a shutdown() of two plugins with a hook, one of them
\* disabled, a hook has thrown while the other is still under way.
C16_Witness ==
  /\ last.op = "shutdownHook" /\ last.res = "throw"
  /\ \E c \in InFlight : c.op = "shutdown" /\ c.pending # {}
  /\ \E i \in 1..Len(plugins) :
       ~plugins[i].enabled /\ "shutdown" \in Obj[plugins[i].plugin].methods

\* Whether an unregister(id) is suspended in the shutdown hook of plugin id.
C17_InHook(id) == \E c \in InFlight : c.op = "unregister" /\ c.id = id

\* C17: unregister of an id that is not registered fails and changes neither
\* the registry nor the active pointer, and unregister fails in no other case;
\* unregister of a registered plugin with a shutdown hook invokes the hook
\* before it removes anything; when the hook has settled, thrown or not, or
\* when there is none, the id is removed and the other plugins stay as they
\* are.
C17_UnregisterRemoves ==
  [][last'.op = "unregister" =>
       /\ (~IsRegistered(last'.id) /\ ~C17_InHook(last'.id)) => last'.res = "throw"
       /\ last'.res = "throw" =>
            /\ ~IsRegistered(last'.id)
            /\ UNCHANGED <<plugins, activePluginId, calls>>
       /\ last'.res = "await" =>
            /\ IsRegistered(last'.id)
            /\ "shutdown" \in Obj[Get(plugins, last'.id).plugin].methods
            /\ UNCHANGED <<plugins, activePluginId>>
            /\ \E c \in BagToSet(calls') : /\ calls' = Started(calls, c)
                                           /\ c.op = "unregister" /\ c.id = last'.id
       /\ last'.res = "ok" =>
            /\ \/ C17_InHook(last'.id)
               \/ /\ IsRegistered(last'.id)
                  /\ "shutdown" \notin Obj[Get(plugins, last'.id).plugin].methods
            /\ ~Has(plugins', last'.id)
            /\ plugins' = Delete(plugins, last'.id)]_vars

\* C17 witness: the shutdown hook of a plugin has thrown and unregister has
\* removed the plugin all the same, leaving another plugin registered.
C17_Witness ==
  /\ last.op = "unregister" /\ last.res = "ok"
  /\ last.ret # <<>> /\ last.ret.hook = "throw"
  /\ ~IsRegistered(last.id)
  /\ plugins # <<>>

(***************************************************************************)
(* Properties of getPdfSources.                                             *)
(***************************************************************************)
\* Whether paper.source names a registered plugin with the pdfDownload
\* capability.
C18_Preferred(source) ==
  IsRegistered(source) /\ Obj[Get(plugins, source).plugin].capabilities.pdfDownload

\* The enabled PDF-capable plugins, in registration order.
C18_FanOut ==
  LET Pdf(r) == r.enabled /\ Obj[r.plugin].capabilities.pdfDownload
      regs == SelectSeq(plugins, Pdf)
  IN  [i \in 1..Len(regs) |-> regs[i].plugin]

\* The sources of the calls that succeeded, in the order of the calls.
RECURSIVE C18_Concat(_)
C18_Concat(tried) ==
  IF tried = <<>>
  THEN <<>>
  ELSE (IF Head(tried).out = "ok" THEN Head(tried).result ELSE <<>>)
       \o C18_Concat(Tail(tried))

\* C18: when paper.source names a registered PDF-capable plugin, getPdfSources
\* calls that plugin and no other; otherwise it calls the enabled PDF-capable
\* plugins one after the other in registration order, all of them whether or
\* not a call fails, never ends in an error, and returns the sources of the
\* calls that succeeded, concatenated in that order.
C18_PdfSources ==
  /\ last.op = "getPdfSources.dispatch" =>
       IF C18_Preferred(last.ret.source)
       THEN last.obj = Get(plugins, last.ret.source).plugin /\ last.ret.tried = <<>>
       ELSE /\ Len(last.ret.tried) < Len(C18_FanOut)
            /\ last.obj = C18_FanOut[Len(last.ret.tried) + 1]
  /\ last.op = "getPdfSources.return" =>
       IF C18_Preferred(last.ret.source)
       THEN /\ Len(last.ret.tried) = 1
            /\ last.ret.tried[1].obj = Get(plugins, last.ret.source).plugin
            /\ last.res = "ok" => last.ret.sources = last.ret.tried[1].result
       ELSE /\ last.res = "ok"
            /\ [i \in 1..Len(last.ret.tried) |-> last.ret.tried[i].obj] = C18_FanOut
            /\ last.ret.sources = C18_Concat(last.ret.tried)

\* C18 witness: in a fan-out over three plugins the second call has failed, and
\* getPdfSources has returned the sources of the first followed by those of
\* the third.
C18_Witness ==
  /\ last.op = "getPdfSources.return" /\ last.res = "ok"
  /\ Len(last.ret.tried) = 3
  /\ last.ret.tried[1].out = "ok"
  /\ last.ret.tried[2].out = "throw"
  /\ last.ret.tried[3].out = "ok"
  /\ last.ret.sources = last.ret.tried[1].result \o last.ret.tried[3].result

\* C19 (as claimed): when a request is dispatched to a plugin, the recorded
\* last-request time of the plugin is the time of the dispatch: the rate-limit
\* step has just run for it.
C19_DispatchRecorded ==
  last.op \in {"dispatch", "getPdfSources.dispatch"}
    => lastRequestTime[last.ret.id] = now

\* C20: an authenticated operation of the ADS plugin called while the plugin
\* holds no token (null or the empty string) throws the not-authenticated error
\* at once: no call of the ADS API module is made and nothing is left in
\* flight.  shutdown always leaves the token null and changes nothing else, so
\* a second shutdown leaves the state of the first.
C20_NoToken == token = NULL \/ token = <<>>

C20_Unauthenticated ==
  [][/\ (C20_NoToken /\ last'.op = "ads.call" /\ started' = started + 1)
          => /\ last'.res = "throw"
             /\ last'.ret.error = NotAuthenticated(last'.ret.operation)
             /\ apiCalls' = apiCalls
             /\ calls' = calls
             /\ token' = token
     /\ last'.op = "ads.shutdown"
          => /\ token' = NULL
             /\ apiCalls' = apiCalls
             /\ calls' = calls
             /\ (last.op = "ads.shutdown" => token' = token)]_vars

\* An operation has reached the ADS API module with a token, the token was
\* cleared, and an operation called after that has failed for want of a token.
C20_Witness ==
  /\ last.op = "ads.call"
  /\ last.res = "throw"
  /\ token = NULL
  /\ apiCalls # <<>>

(***************************************************************************)
(* Properties of the identifier classifier.                                 *)
(***************************************************************************)
C21_Tags == {"doi", "arxiv", "bibcode", "inspire", "unknown"}

C21_FirstMatch(id) ==
  IF DoiPatternTest(id) THEN "doi"
  ELSE IF ArxivNewPatternTest(id) \/ ArxivOldPatternTest(id) THEN "arxiv"
  ELSE IF BibcodePatternTest(id) THEN "bibcode"
  ELSE IF InspirePatternTest(id) THEN "inspire"
  ELSE "unknown"

\* C21: the classifier returns, for every string, one of the five tags: the tag
\* of the first pattern, in the order doi, arxiv, bibcode, inspire, that the
\* string without its outer whitespace matches, and unknown if it matches none;
\* the five sample identifiers get the tags doi, arxiv, bibcode, inspire and
\* unknown.
C21_Classifier ==
  last.op = "_detectIdentifierType" =>
    /\ last.res = "ok"
    /\ last.ret.type \in C21_Tags
    /\ last.ret.type = C21_FirstMatch(last.ret.core)
    /\ last.ret.core = <<"1", "0", ".", "1", "0", "8", "6", "/", "3", "0", "5", "7", "7", "2">>
         => last.ret.type = "doi"
    /\ last.ret.core = <<"2", "4", "0", "1", ".", "1", "2", "3", "4", "5">>
         => last.ret.type = "arxiv"
    /\ last.ret.core = <<"2", "0", "2", "4", "A", "p", "J", ".", ".", ".", "1", "2", "3", ".", ".", "4", "5", "6", "A">>
         => last.ret.type = "bibcode"
    /\ last.ret.core = <<"1", "2", "3", "4", "5", "6", "7">>
         => last.ret.type = "inspire"
    /\ last.ret.core = <<"n", "o", "t", "-", "a", "n", "-", "i", "d">>
         => last.ret.type = "unknown"

\* A bibcode padded with whitespace on both sides has been classified.
C21_Witness ==
  /\ last.op = "_detectIdentifierType"
  /\ last.ret.type = "bibcode"
  /\ Len(last.ret.identifier) >= Len(last.ret.core) + 2
  /\ last.ret.identifier[1] \in WhiteSpace
  /\ last.ret.identifier[Len(last.ret.identifier)] \in WhiteSpace

C27_Alphanumeric == UpperChars \cup LowerChars \cup DigitChars

C27_BibcodeShape(id) ==
  /\ Len(id) = 19
  /\ \A i \in 1..4 : id[i] \in DigitChars
  /\ \A i \in 5..9 : id[i] \in C27_Alphanumeric \cup {"&", "."}
  /\ \A i \in 10..18 : id[i] \in C27_Alphanumeric \cup {"."}
  /\ id[19] \in UpperChars \cup {"."}

C27_InspireShape(id) ==
  /\ Len(id) >= 1
  /\ Len(id) < 10
  /\ \A i \in 1..Len(id) : id[i] \in DigitChars

C27_Earlier(id) == DoiPatternTest(id) \/ ArxivNewPatternTest(id) \/ ArxivOldPatternTest(id)

\* C27: a string is tagged bibcode exactly when it matches neither the doi nor
\* the arxiv rule and has the 19-character shape (4 digits, 5 characters
\* alphanumeric, ampersand or dot, 9 characters alphanumeric or dot, 1 uppercase
\* letter or dot), and is tagged inspire exactly when it matches none of the
\* earlier rules and is 1 to 9 digits.
C27_BibcodeAndInspire ==
  last.op = "_detectIdentifierType" =>
    LET id == last.ret.core
    IN  /\ last.ret.type = "bibcode" <=> (~C27_Earlier(id) /\ C27_BibcodeShape(id))
        /\ last.ret.type = "inspire"
             <=> (~C27_Earlier(id) /\ ~C27_BibcodeShape(id) /\ C27_InspireShape(id))

(***************************************************************************)
(* Properties of the ADS query translator.                                  *)
(***************************************************************************)
C22_Set(v) == v # NULL /\ v # <<>>

C22_AnyExact(q) == C22_Set(q.bibcode) \/ C22_Set(q.doi) \/ C22_Set(q.arxivId)

\* The ADS keyword and the value of the exact-match field of highest priority.
C22_Key(q) ==
  IF C22_Set(q.bibcode) THEN <<"b", "i", "b", "c", "o", "d", "e">>
  ELSE IF C22_Set(q.doi) THEN <<"d", "o", "i">>
  ELSE <<"a", "r", "x", "i", "v">>

C22_Value(q) ==
  IF C22_Set(q.bibcode) THEN q.bibcode
  ELSE IF C22_Set(q.doi) THEN q.doi
  ELSE q.arxivId

C22_WithoutPrefix(v) == IF ArxivPrefixTest(v) THEN SubSeq(v, 7, Len(v)) ELSE v

C22_ValueLookedUp(q) ==
  IF C22_Set(q.bibcode) \/ C22_Set(q.doi) THEN C22_Value(q) ELSE C22_WithoutPrefix(q.arxivId)

\* The exact-lookup expressions of keyword key for value v: nothing but the
\* keyword, a colon and the value, quoted or not.
C22_Lookups(key, v) == {key \o <<":">> \o v, key \o <<":", "\"">> \o v \o <<"\"">>}

\* C22 as stated: with raw set the translation is raw; otherwise, with one of
\* bibcode, doi, arxivId set, it is an exact-lookup expression of the first of
\* them that is set, made of that field's value and no other clause.
C22_ExactValueVerbatim ==
  last.op = "translateQueryToADS" =>
    LET q == last.ret.query
    IN  /\ C22_Set(q.raw) => last.ret.result = q.raw
        /\ (~C22_Set(q.raw) /\ C22_AnyExact(q))
             => last.ret.result \in C22_Lookups(C22_Key(q), C22_Value(q))

\* C22 (amended): as above, where the value looked up for arxivId is the
\* field's value without a leading "arXiv:" (in any letter case).
C22_ExactLookup ==
  last.op = "translateQueryToADS" =>
    LET q == last.ret.query
    IN  /\ C22_Set(q.raw) => last.ret.result = q.raw
        /\ (~C22_Set(q.raw) /\ C22_AnyExact(q))
             => last.ret.result \in C22_Lookups(C22_Key(q), C22_ValueLookedUp(q))

\* A query with arxivId carrying the prefix, no raw, bibcode or doi, and a
\* title and keywords besides, has been translated.
C22_Witness ==
  /\ last.op = "translateQueryToADS"
  /\ ~C22_Set(last.ret.query.raw)
  /\ ~C22_Set(last.ret.query.bibcode)
  /\ ~C22_Set(last.ret.query.doi)
  /\ C22_Set(last.ret.query.arxivId)
  /\ ArxivPrefixTest(last.ret.query.arxivId)
  /\ C22_Set(last.ret.query.title)
  /\ last.ret.query.keywords # <<>>

(***************************************************************************)
(* Properties of the PDF-source conversion of the ADS plugin.               *)
(***************************************************************************)
C23_ArxivLink(e) == UsableUrl(e.url) /\ Includes(LinkTypeOf(e), EPRINT_PDF)

C23_Known(arxivId) == arxivId # NULL /\ arxivId # <<>>

C23_Clean(arxivId) ==
  LET bare == IF ArxivPrefixTest(arxivId) THEN SubSeq(arxivId, 7, Len(arxivId)) ELSE arxivId
      cut == {i \in 1..(Len(bare) - 1) :
                bare[i] = "v" /\ \A j \in (i + 1)..Len(bare) : bare[j] \in DigitChars}
  IN  IF cut = {} THEN bare ELSE SubSeq(bare, 1, (CHOOSE i \in cut : TRUE) - 1)

C23_ArxivEntries(sources) == {i \in 1..Len(sources) : sources[i].type = "arxiv"}

\* C23: converting a list of esource records with no EPRINT_PDF link of a
\* usable URL gives, when an arXiv identifier is known, exactly one entry of
\* type arxiv: the last of the list, with a priority number above every other
\* and the URL https://arxiv.org/pdf/<id>.pdf, <id> being the identifier without
\* its "arXiv:" prefix and version suffix; with no identifier known it gives no
\* entry of type arxiv.
C23_ArxivFallback ==
  (/\ last.op = "esourcesToPdfSources"
   /\ \A i \in 1..Len(last.ret.esources) : ~C23_ArxivLink(last.ret.esources[i]))
    => LET sources == last.ret.sources
           n == Len(sources)
       IN  IF C23_Known(last.ret.arxivId)
           THEN /\ C23_ArxivEntries(sources) = {n}
                /\ n >= 1
                /\ sources[n].url
                     = <<"h", "t", "t", "p", "s", ":", "/", "/", "a", "r", "x", "i", "v", ".", "o", "r", "g", "/", "p", "d", "f", "/">>
                         \o C23_Clean(last.ret.arxivId) \o <<".", "p", "d", "f">>
                /\ \A i \in 1..(n - 1) : sources[i].priority < sources[n].priority
           ELSE C23_ArxivEntries(sources) = {}

\* A list with a publisher link and an EPRINT_PDF record without a usable URL
\* has been converted for an identifier with a version suffix.
C23_Witness ==
  /\ last.op = "esourcesToPdfSources"
  /\ \A i \in 1..Len(last.ret.esources) : ~C23_ArxivLink(last.ret.esources[i])
  /\ \E i \in 1..Len(last.ret.esources) :
       Includes(LinkTypeOf(last.ret.esources[i]), EPRINT_PDF)
  /\ C23_Known(last.ret.arxivId)
  /\ C23_Clean(last.ret.arxivId) # last.ret.arxivId
  /\ Len(last.ret.sources) = 2

\* C24: the converted list has no two entries of the same type, and its
\* priority numbers are 0, 1, 2, ... along the list.
C24_DedupAndOrdered ==
  last.op = "esourcesToPdfSources" =>
    LET sources == last.ret.sources
    IN  /\ \A i, j \in 1..Len(sources) : sources[i].type = sources[j].type => i = j
        /\ \A i \in 1..Len(sources) : sources[i].priority = i - 1

(***************************************************************************)
(* Properties of the mobile database module.                                *)
(***************************************************************************)
C25_Initialized == db # NULL

C26_Has(o, method) == method \in Obj[o].methods

C26_Method(o, idType) ==
  IF idType = "doi" /\ C26_Has(o, "getByDOI") THEN "getByDOI"
  ELSE IF idType = "arxiv" /\ C26_Has(o, "getByArxiv") THEN "getByArxiv"
  ELSE "getRecord"

\* C26: the plugin method an attempt of lookup calls, once its rate-limit step
\* has returned, is getByDOI for a doi when the plugin has it, getByArxiv for an
\* arxiv id when the plugin has it, and getRecord in every other case; an
\* attempt calls one method, or none when its rate-limit step has thrown.
C26_MethodByType ==
  /\ (last.op = "dispatch" /\ last.ret.call = "lookup")
       => last.ret.method = C26_Method(last.obj, last.ret.idType)
  /\ last.op = "lookup.return"
       => \A i \in 1..Len(last.ret.tried) :
            LET a == last.ret.tried[i]
            IN  IF a.stage = "inflight"
                THEN a.method = C26_Method(a.obj, last.ret.idType)
                ELSE a.method = "-"

\* A lookup of an arXiv id has called getRecord of a plugin without getByArxiv,
\* which found nothing, and then getByArxiv of another plugin.
C26_Witness ==
  /\ last.op = "lookup.return"
  /\ last.ret.idType = "arxiv"
  /\ Len(last.ret.tried) >= 2
  /\ last.ret.tried[1].method = "getRecord"
  /\ last.ret.tried[2].method = "getByArxiv"

C30_Attempts(c) == Len(c.tasks)

\* C30: a lookup call has at most one attempt under way; an attempt starts only
\* when every earlier attempt of the call has ended with nothing or with an
\* error, and on a plugin the call has not attempted before; when lookup
\* returns, no plugin was attempted twice and no attempt follows one that
\* returned a Paper.
C30_Sequential ==
  /\ \A c \in InFlight : c.op = "lookup" => C30_Attempts(c) <= 1
  /\ (\/ last.op = "lookup.attempt"
      \/ last.op = "dispatch" /\ last.ret.call = "lookup")
       => \A i \in 1..Len(last.ret.tried) :
            /\ last.ret.tried[i].out \in {"null", "throw"}
            /\ last.ret.tried[i].obj # last.obj
            /\ Obj[last.ret.tried[i].obj].id # Obj[last.obj].id
  /\ last.op = "lookup.return"
       => /\ \A i, j \in 1..Len(last.ret.tried) :
               Obj[last.ret.tried[i].obj].id = Obj[last.ret.tried[j].obj].id => i = j
          /\ \A i \in 1..(Len(last.ret.tried) - 1) : last.ret.tried[i].out # "paper"

\* A lookup has returned null after the active plugin's attempt threw and the
\* attempt of the other lookup-capable plugin found nothing.
C30_Witness ==
  /\ last.op = "lookup.return"
  /\ last.ret.paper = "-"
  /\ Len(last.ret.tried) = 2
  /\ activePluginId # NULL
  /\ last.ret.tried[1].obj = ActiveObj
  /\ last.ret.tried[1].out = "throw"
  /\ last.ret.tried[1].stage = "inflight"
  /\ last.ret.tried[2].out = "null"

(***************************************************************************)
(* Properties of the registry under asynchronous removal.                   *)
(***************************************************************************)
\* C28: in every state, those in which an unregister or a shutdown is suspended
\* in a hook included, the active pointer is none or the id of a registered
\* plugin; setActive(id) of an id that is not registered throws and leaves the
\* pointer as it was.
C28_ActiveRegistered ==
  /\ [](activePluginId = NULL \/ Has(plugins, activePluginId))
  /\ [][(last'.op = "setActive" /\ ~Has(plugins, last'.id))
          => (last'.res = "throw" /\ activePluginId' = activePluginId)]_vars

\* While an unregister of the active plugin is suspended in the plugin's
\* shutdown hook, setActive of an unregistered id has thrown.
C28_Witness ==
  /\ \E c \in InFlight : c.op = "unregister" /\ c.id = activePluginId
  /\ last.op = "setActive"
  /\ last.res = "throw"
  /\ Len(plugins) >= 2

(***************************************************************************)
(* unregister(id) among searches.  The plugins are registered and one is     *)
(* made active; then plugins are unregistered while searches are made.  A    *)
(* plugin with a shutdown hook keeps unregister suspended in the hook.       *)
(***************************************************************************)
UnregObjs == {"arxiv", "lib"}

UnregIds == {Obj[o].id : o \in UnregObjs}

NextUnreg ==
  \/ Setup /\ (\E o \in UnregObjs : Register(o)) /\ UNCHANGED qvars
  \/ Setup /\ (\E id \in UnregIds : SetActive(id)) /\ UNCHANGED qvars
  \/ (\E id \in UnregIds : UnregisterStart(id)) /\ UNCHANGED qvars
  \/ (\E c \in InFlight, h \in HookOutcomes : UnregisterFinish(c, h)) /\ UNCHANGED qvars
  \/ \E status \in StatusValues : SearchStart(status)
  \/ \E c \in InFlight : \E i \in 1..Len(c.tasks) : Wake(c, i)
  \/ \E c \in InFlight : \E i \in 1..Len(c.tasks) : Dispatch(c, i)
  \/ \E c \in InFlight, out \in SearchOutcomes : SearchSettle(c, out)
  \/ ~Setup /\ \E d \in TickSizes : Tick(d)

SpecUnreg == Init /\ [][NextUnreg]_vars

\* C29: once unregister(id) has invoked the shutdown hook of plugin id, no
\* search or lookup call is dispatched to that plugin: a request is never
\* dispatched to a plugin while an unregister of it is suspended in the hook.
C29_NoDispatchAfterHook ==
  last.op = "dispatch" =>
    \A c \in InFlight : c.op = "unregister" => c.id # last.ret.id
====
